---- MODULE Spec2Model ----
(***************************************************************************)
(* The satellite-image cache of stargate-timeline: a directory of          *)
(* "<date>.png" blobs plus one metadata.json index.  The repository holds  *)
(* three variants of the ImageCache class that work on the same cache      *)
(* directory:                                                              *)
(*   src/src/lib/image-cache.ts  data-URL references, purge of small blobs *)
(*   src/unnamed/part_000        static references, rebuild of the index   *)
(*   src/unnamed/part_001        bbox and freshness invalidation           *)
(* An operation of a variant keeps its source name; where a method differs *)
(* between variants the later ones carry the file as a suffix.             *)
(* An action is one whole call; the actions whose name ends in Under run   *)
(* the call while system calls fail, and the actions whose name ends in    *)
(* Step run a call up to its next await, so that two calls overlap.        *)
(***************************************************************************)
EXTENDS Integers, Sequences, FiniteSets, TLC

VARIABLES cacheDir,  \* TRUE iff the directory .cache/satellite-images exists
          disk,      \* file name -> content, NoFile when there is no such file
          last,      \* the most recent call: operation, arguments, result
          calls      \* the calls in flight: caller -> call and its position

vars == <<cacheDir, disk, last, calls>>

---------------------------------------------------------------------------
(* Bounds of the model *)

NumDates == 2        \* calendar days 1..NumDates of the small specifications
MaxLen == 2          \* longest entry list or candidate list handed to a call
NumRepairDates == 12 \* calendar days of the specification about reconciliation
NumFetchDates == 6   \* calendar days of the specifications about whole requests

(* Program constants *)

MinImageBytes == 10000   \* lib/image-cache.ts: imageData.length < 10000
Slack == 10              \* part_000: pngFiles.length > metadata.images.length + 10

cacheMaxAge == 24 * 60 * 60 * 1000

FetchMinBytes == 10000      \* images.ts: arrayBuffer.byteLength < 10000
FallbackMinBytes == 1000    \* images.ts: fallbackArrayBuffer.byteLength < 1000
HandlerMinBytes == 10000    \* images.ts: imageBuffer.length > 10000
MaxFetchCount == 5          \* images.ts: Math.min(missingDates.length, 5)
MinCachedToServe == 5       \* images.ts: existingImages.length >= 5

---------------------------------------------------------------------------
(* Values *)

NoFile == [enoent |-> TRUE]
null == [null |-> TRUE]
Some(v) == [null |-> FALSE, val |-> v]

\* a call that ends in an exception instead of a value
Thrown(error) == [null |-> FALSE, thrown |-> error]
threw(ret) == "thrown" \in DOMAIN ret

Dates == 1 .. NumDates
RepairDates == 1 .. NumRepairDates

\* Date.now(): the k-th reading of the clock, in ms (12 h apart)
Clock(k) == k * 43200000

\* new Date("YYYY-MM-DD").getTime(): ms of the calendar day, strictly
\* increasing with the day
NewDate(date) == date * 86400000

ZeroBBox == <<0, 0, 0, 0>>
DefaultBBox == <<-998065975, 324925513, -997717279, 325121709>>
RequestBBox == <<-1212000000, 377000000, -1211000000, 378000000>>

Buffer(n) == [length |-> n]
DataUrl(imageData) == <<"data:image/png;base64,", imageData>>
StaticUrl(date) == <<"/stargate-timeline/cache/", date, ".png">>

CachedImage(date, imageUrl, timestamp) ==
    [date |-> date, imageUrl |-> imageUrl, timestamp |-> timestamp]

CacheMetadata(bbox, images, lastUpdated) ==
    [bbox |-> bbox, images |-> images, lastUpdated |-> lastUpdated]

JSONstringify(value) == [json |-> value]
JSONparse(text) == text.json

---------------------------------------------------------------------------
(* The file system under cacheDir.  st = [dir, disk] is a storage state;    *)
(* a field faults, when st has one, names the system calls that fail while *)
(* st is in use: pairs <<call, kind of file>>.                             *)

\* a file name is the sequence of its parts: <<"metadata.json">>, <<date, ".png">>
metadataFile == <<"metadata.json">>
getCacheKey_oneKey(date) == <<1, ".png">>

getCacheKey(date) == <<date, ".png">>
endsWithPng(file) == file[Len(file)] = ".png"
replacePng(file) == file[1]

FileNames(dates) == {getCacheKey(d) : d \in dates} \cup {metadataFile}
EmptyDisk(dates) == [f \in FileNames(dates) |-> NoFile]

Storage == [dir |-> cacheDir, disk |-> disk]

exists(st, file) == st.dir /\ file \in DOMAIN st.disk /\ st.disk[file] # NoFile

kindOf(file) == IF endsWithPng(file) THEN "blob" ELSE "index"

\* the system call fails on files of that kind
Faulty(st, call, kind) == "faults" \in DOMAIN st /\ <<call, kind>> \in st.faults

\* fs.mkdir(cacheDir, {recursive: true}); its error is logged and dropped
ensureCacheDir(st) ==
    IF Faulty(st, "mkdir", "dir") THEN st ELSE [st EXCEPT !.dir = TRUE]

\* fs.writeFile rejects: no directory, or the call fails before ("writeFile")
\* or after ("truncate") the file was opened and emptied
writeFails(st, file) ==
    \/ ~st.dir
    \/ Faulty(st, "writeFile", kindOf(file))
    \/ Faulty(st, "truncate", kindOf(file))

\* fs.writeFile(file, content): what it leaves on disk
writeFile(st, file, content) ==
    IF ~st.dir \/ Faulty(st, "writeFile", kindOf(file)) THEN st
    ELSE IF Faulty(st, "truncate", kindOf(file))
         THEN [st EXCEPT !.disk[file] = Buffer(0)]
         ELSE [st EXCEPT !.disk[file] = content]

\* fs.unlink(file); where it is called its error is logged and dropped
unlink(st, file) ==
    IF Faulty(st, "unlink", kindOf(file)) THEN st
    ELSE [st EXCEPT !.disk[file] = NoFile]

\* fs.access(file) resolves
access(st, file) == exists(st, file) /\ ~Faulty(st, "access", kindOf(file))

\* fs.readFile(file) resolves
readable(st, file) == exists(st, file) /\ ~Faulty(st, "readFile", kindOf(file))

\* fs.readdir(cacheDir) rejects
readdirFails(st) == ~st.dir \/ Faulty(st, "readdir", "dir")

\* fs.readdir: the names present, in the order the system lists them
readdir(st, order) == SelectSeq(order, LAMBDA f : exists(st, f))

fileExists(st, date) == access(st, getCacheKey(date))

\* JSON.parse of what readFile gave; any failure gives null
loadMetadata(st) ==
    IF ~readable(st, metadataFile) THEN null
    ELSE IF "json" \in DOMAIN st.disk[metadataFile]
         THEN Some(JSONparse(st.disk[metadataFile]))
         ELSE null

\* metadata.images is an array: the document has the CacheMetadata shape
hasImages(metadata) == "images" \in DOMAIN metadata

\* reading a property of undefined, or iterating undefined
TypeError == Thrown("TypeError")

saveMetadata(st, metadata) ==
    writeFile(ensureCacheDir(st), metadataFile, JSONstringify(metadata))

---------------------------------------------------------------------------
(* Array.prototype.sort with the comparator                                *)
(*   (a, b) => new Date(a.date) - new Date(b.date)                         *)
(* The sort is stable: x goes behind every element that does not compare   *)
(* greater than it.                                                        *)

compareByDate(a, b) == NewDate(a.date) - NewDate(b.date)

RECURSIVE insertByDate(_, _)
insertByDate(sorted, x) ==
    IF sorted = <<>> THEN <<x>>
    ELSE IF compareByDate(sorted[Len(sorted)], x) <= 0
         THEN Append(sorted, x)
         ELSE Append(insertByDate(SubSeq(sorted, 1, Len(sorted) - 1), x),
                     sorted[Len(sorted)])

RECURSIVE sortByDate(_)
sortByDate(images) ==
    IF images = <<>> THEN <<>>
    ELSE insertByDate(sortByDate(SubSeq(images, 1, Len(images) - 1)),
                      images[Len(images)])

datesOf(images) == {images[i].date : i \in DOMAIN images}

\* the range test with the last day left out
inRange_exclusiveEnd(date, startDate, endDate) ==
    NewDate(date) >= NewDate(startDate) /\ NewDate(date) < NewDate(endDate)

\* imgDate >= start && imgDate <= end
inRange(date, startDate, endDate) ==
    NewDate(date) >= NewDate(startDate) /\ NewDate(date) <= NewDate(endDate)

---------------------------------------------------------------------------
(* The methods of ImageCache as functions of the storage state.  Each      *)
(* returns the storage it leaves and what it hands back.                   *)

\* cacheImage that logs a failed write and hands back the reference all the same
cacheImage_swallow(st, date, imageData) ==
    LET st1 == ensureCacheDir(st) IN
    [st |-> writeFile(st1, getCacheKey(date), imageData),
     ret |-> Some(DataUrl(imageData))]

\* cacheImage (the same in the three variants): a failed write is logged and
\* thrown again
\* cacheImage that leaves a blob that is there
cacheImage_keepFirst(st, date, imageData) ==
    LET st1 == ensureCacheDir(st) IN
    [st |-> IF exists(st1, getCacheKey(date)) THEN st1
            ELSE writeFile(st1, getCacheKey(date), imageData),
     ret |-> IF writeFails(st1, getCacheKey(date)) THEN Thrown("writeFile")
             ELSE Some(DataUrl(imageData))]

cacheImage(st, date, imageData) ==
    LET st1 == ensureCacheDir(st) IN
    [st |-> writeFile(st1, getCacheKey(date), imageData),
     ret |-> IF writeFails(st1, getCacheKey(date)) THEN Thrown("writeFile")
             ELSE Some(DataUrl(imageData))]

\* addImages that appends every new entry, also for a date the index knows
addImages_unfiltered(st, newImages, now) ==
    LET loaded == loadMetadata(st)
        metadata == IF loaded.null THEN CacheMetadata(ZeroBBox, <<>>, now)
                    ELSE loaded.val
    IN IF Len(newImages) > 0
       THEN [st |-> saveMetadata(st, [metadata EXCEPT
                                        !.images = @ \o newImages,
                                        !.lastUpdated = now]),
             appended |-> Len(newImages), saved |-> TRUE, ret |-> null]
       ELSE [st |-> st, appended |-> 0, saved |-> FALSE, ret |-> null]

\* addImages that saves the document even when nothing is appended
addImages_alwaysSave(st, newImages, now) ==
    LET loaded == loadMetadata(st)
        metadata == IF loaded.null THEN CacheMetadata(ZeroBBox, <<>>, now)
                    ELSE loaded.val
        existingDates == datesOf(metadata.images)
        imagesToAdd == SelectSeq(newImages, LAMBDA img : img.date \notin existingDates)
    IN [st |-> saveMetadata(st, [metadata EXCEPT
                                   !.images = @ \o imagesToAdd,
                                   !.lastUpdated = now]),
        appended |-> Len(imagesToAdd), saved |-> TRUE, ret |-> null]

\* addImages in which the new entry of a known date takes the place of the old
addImages_lastWins(st, newImages, now) ==
    LET loaded == loadMetadata(st)
        metadata == IF loaded.null THEN CacheMetadata(ZeroBBox, <<>>, now)
                    ELSE loaded.val
        kept == SelectSeq(metadata.images, LAMBDA img : img.date \notin datesOf(newImages))
    IN IF Len(newImages) > 0
       THEN [st |-> saveMetadata(st, [metadata EXCEPT
                                        !.images = kept \o newImages,
                                        !.lastUpdated = now]),
             appended |-> Len(newImages), saved |-> TRUE, ret |-> null]
       ELSE [st |-> st, appended |-> 0, saved |-> FALSE, ret |-> null]

\* addImages that creates the document with the default box
addImages_defaultBox(st, newImages, now) ==
    LET loaded == loadMetadata(st)
        metadata == IF loaded.null THEN CacheMetadata(DefaultBBox, <<>>, now)
                    ELSE loaded.val
        existingDates == datesOf(metadata.images)
        imagesToAdd == SelectSeq(newImages, LAMBDA img : img.date \notin existingDates)
    IN IF Len(imagesToAdd) > 0
       THEN [st |-> saveMetadata(st, [metadata EXCEPT
                                        !.images = @ \o imagesToAdd,
                                        !.lastUpdated = now]),
             appended |-> Len(imagesToAdd), saved |-> TRUE, ret |-> null]
       ELSE [st |-> st, appended |-> 0, saved |-> FALSE, ret |-> null]

\* addImages (lib/image-cache.ts and part_000); saved tells that saveMetadata
\* was called
addImages(st, newImages, now) ==
    LET loaded == loadMetadata(st)
        metadata == IF loaded.null THEN CacheMetadata(ZeroBBox, <<>>, now)
                    ELSE loaded.val
        existingDates == datesOf(metadata.images)
        imagesToAdd == SelectSeq(newImages, LAMBDA img : img.date \notin existingDates)
    IN IF ~hasImages(metadata)
       THEN [st |-> st, appended |-> 0, saved |-> FALSE, ret |-> TypeError]
       ELSE IF Len(imagesToAdd) > 0
       THEN [st |-> saveMetadata(st, [metadata EXCEPT
                                        !.images = @ \o imagesToAdd,
                                        !.lastUpdated = now]),
             appended |-> Len(imagesToAdd), saved |-> TRUE, ret |-> null]
       ELSE [st |-> st, appended |-> 0, saved |-> FALSE, ret |-> null]

\* getMissingDates that trusts the blobs instead of the index
getMissingDates_byFile(st, availableDates) ==
    Some(SelectSeq(availableDates, LAMBDA date : ~fileExists(st, date)))

\* getMissingDates that gives the second missing date before the first
getMissingDates_swapped(st, availableDates) ==
    LET metadata == loadMetadata(st)
        existingDates == IF metadata.null THEN {} ELSE datesOf(metadata.val.images)
        missingDates == SelectSeq(availableDates, LAMBDA date : date \notin existingDates)
    IN IF Len(missingDates) < 2 THEN Some(missingDates)
       ELSE Some(<<missingDates[2], missingDates[1]>>
                 \o SubSeq(missingDates, 3, Len(missingDates)))

\* getMissingDates (lib/image-cache.ts and part_000)
getMissingDates(st, availableDates) ==
    LET metadata == loadMetadata(st)
        existingDates == IF metadata.null THEN {} ELSE datesOf(metadata.val.images)
    IN IF ~metadata.null /\ ~hasImages(metadata.val) THEN TypeError
       ELSE Some(SelectSeq(availableDates, LAMBDA date : date \notin existingDates))

\* getCachedImagePath that also rejects a blob of exactly 10000 bytes
getCachedImagePath_strict(st, date) ==
    LET filepath == getCacheKey(date) IN
    IF ~access(st, filepath) \/ ~readable(st, filepath) THEN [st |-> st, ret |-> null]
    ELSE LET imageData == st.disk[filepath] IN
         IF imageData.length <= MinImageBytes
         THEN [st |-> unlink(st, filepath), ret |-> null]
         ELSE [st |-> st, ret |-> Some(DataUrl(imageData))]

\* getCachedImagePath that deletes the index entry together with the blob
getCachedImagePath_dropEntry(st, date) ==
    LET filepath == getCacheKey(date)
        loaded == loadMetadata(st)
        kept == [loaded.val EXCEPT !.images =
                    SelectSeq(@, LAMBDA img : img.date # date)]
    IN
    IF ~access(st, filepath) \/ ~readable(st, filepath) THEN [st |-> st, ret |-> null]
    ELSE LET imageData == st.disk[filepath] IN
         IF imageData.length < MinImageBytes
         THEN [st |-> IF loaded.null THEN unlink(st, filepath)
                      ELSE saveMetadata(unlink(st, filepath), kept),
               ret |-> null]
         ELSE [st |-> st, ret |-> Some(DataUrl(imageData))]

\* getCachedImagePath of lib/image-cache.ts: a blob shorter than 10000 bytes
\* is deleted and reported as absent
getCachedImagePath(st, date) ==
    LET filepath == getCacheKey(date) IN
    IF ~access(st, filepath) \/ ~readable(st, filepath) THEN [st |-> st, ret |-> null]
    ELSE LET imageData == st.disk[filepath] IN
         IF imageData.length < MinImageBytes
         THEN [st |-> unlink(st, filepath), ret |-> null]
         ELSE [st |-> st, ret |-> Some(DataUrl(imageData))]

\* getCachedImagePath of part_000 and part_001: every blob is served
getCachedImagePath_part000(st, date) ==
    LET filepath == getCacheKey(date) IN
    IF ~access(st, filepath) \/ ~readable(st, filepath) THEN [st |-> st, ret |-> null]
    ELSE [st |-> st, ret |-> Some(DataUrl(st.disk[filepath]))]

\* the loop of getCachedImages in lib/image-cache.ts, from entry i on
RECURSIVE resolveImages(_, _, _, _, _)
resolveImages(images, i, startDate, endDate, acc) ==
    IF i > Len(images) THEN acc
    ELSE LET img == images[i] IN
         IF inRange(img.date, startDate, endDate)
         THEN LET r == getCachedImagePath(acc.st, img.date) IN
              resolveImages(images, i + 1, startDate, endDate,
                  [st |-> r.st,
                   validImages |-> IF r.ret.null THEN acc.validImages
                                   ELSE Append(acc.validImages,
                                               [img EXCEPT !.imageUrl = r.ret.val])])
         ELSE resolveImages(images, i + 1, startDate, endDate, acc)

listOrNull(validImages) ==
    IF Len(validImages) > 0 THEN Some(validImages) ELSE null

\* getCachedImages of lib/image-cache.ts
getCachedImages(st, bbox, startDate, endDate) ==
    LET metadata == loadMetadata(st) IN
    IF metadata.null THEN [st |-> st, ret |-> null, rebuilt |-> 0]
    ELSE IF ~hasImages(metadata.val) THEN [st |-> st, ret |-> TypeError, rebuilt |-> 0]
    ELSE LET r == resolveImages(metadata.val.images, 1, startDate, endDate,
                                [st |-> st, validImages |-> <<>>])
         IN [st |-> r.st, ret |-> listOrNull(sortByDate(r.validImages)),
             rebuilt |-> 0]

\* rebuildMetadataFromFiles that keeps the entries in the order of the listing
rebuildMetadataFromFiles_unsorted(st, order, mtime, now) ==
    LET st1 == ensureCacheDir(st)
        pngFiles == SelectSeq(readdir(st1, order), endsWithPng)
        images == [i \in 1 .. Len(pngFiles) |->
                     CachedImage(replacePng(pngFiles[i]),
                                 StaticUrl(replacePng(pngFiles[i])),
                                 mtime[pngFiles[i]])]
    IN IF readdirFails(st1) \/ (Len(pngFiles) > 0 /\ Faulty(st1, "stat", "blob"))
       THEN st1
       ELSE saveMetadata(st1, CacheMetadata(DefaultBBox, images, now))

\* rebuildMetadataFromFiles of part_000; mtime[file] is what fs.stat reports.
\* A readdir or stat that fails ends the rebuild before the save; the error
\* is logged and dropped.
\* a rebuild that keeps the entries of the old index that have no blob
rebuildMetadataFromFiles_additive(st, order, mtime, now) ==
    LET st1 == ensureCacheDir(st)
        files == readdir(st1, order)
        pngFiles == SelectSeq(files, endsWithPng)
        images == [i \in 1 .. Len(pngFiles) |->
                     CachedImage(replacePng(pngFiles[i]),
                                 StaticUrl(replacePng(pngFiles[i])),
                                 mtime[pngFiles[i]])]
        loaded == loadMetadata(st1)
        old == IF loaded.null THEN <<>> ELSE loaded.val.images
        dangling == SelectSeq(old, LAMBDA img : ~exists(st1, getCacheKey(img.date)))
    IN saveMetadata(st1, CacheMetadata(DefaultBBox, sortByDate(images \o dangling), now))

rebuildMetadataFromFiles(st, order, mtime, now) ==
    LET st1 == ensureCacheDir(st)
        files == readdir(st1, order)
        pngFiles == SelectSeq(files, endsWithPng)
        images == [i \in 1 .. Len(pngFiles) |->
                     CachedImage(replacePng(pngFiles[i]),
                                 StaticUrl(replacePng(pngFiles[i])),
                                 mtime[pngFiles[i]])]
    IN IF readdirFails(st1) \/ (Len(pngFiles) > 0 /\ Faulty(st1, "stat", "blob"))
       THEN st1
       ELSE saveMetadata(st1, CacheMetadata(DefaultBBox, sortByDate(images), now))

\* the loop of getCachedImages in part_000: file existence only
existingInRange(st, images, startDate, endDate) ==
    LET kept == SelectSeq(images, LAMBDA img :
                    inRange(img.date, startDate, endDate) /\ fileExists(st, img.date))
    IN [i \in 1 .. Len(kept) |-> [kept[i] EXCEPT !.imageUrl = StaticUrl(kept[i].date)]]

inconsistent_unlessFewer(pngFiles, images) == Len(pngFiles) >= Len(images)

\* the consistency check on the absolute difference of the two counts
inconsistent_absolute(pngFiles, images) ==
    \/ Len(pngFiles) > Len(images) + Slack
    \/ Len(images) > Len(pngFiles) + Slack

\* the consistency check of getCachedImages in part_000
inconsistent(pngFiles, images) == Len(pngFiles) > Len(images) + Slack

\* getCachedImages of part_000
getCachedImages_part000(st, bbox, startDate, endDate, order, mtime, now) ==
    LET first == loadMetadata(st)
        st1 == IF first.null THEN rebuildMetadataFromFiles(st, order, mtime, now) ELSE st
        metadata1 == IF first.null THEN loadMetadata(st1) ELSE first
    IN IF metadata1.null
       THEN [st |-> st1, ret |-> null, rebuilt |-> 1]
       ELSE LET pngFiles == SelectSeq(readdir(st1, order), endsWithPng)
                \* inside try: a readdir that fails, or images undefined, skips
                \* the check
                again == /\ ~readdirFails(st1)
                         /\ hasImages(metadata1.val)
                         /\ inconsistent(pngFiles, metadata1.val.images)
                st2 == IF again THEN rebuildMetadataFromFiles(st1, order, mtime, now)
                       ELSE st1
                \* reloaded without a test for null
                metadata == IF again THEN loadMetadata(st2) ELSE metadata1
                validImages == existingInRange(st2, metadata.val.images,
                                               startDate, endDate)
                rebuilt == (IF first.null THEN 1 ELSE 0) + (IF again THEN 1 ELSE 0)
            IN IF metadata.null \/ ~hasImages(metadata.val)
               THEN [st |-> st2, ret |-> TypeError, rebuilt |-> rebuilt]
               ELSE [st |-> st2, ret |-> listOrNull(sortByDate(validImages)),
                     rebuilt |-> rebuilt]

\* getCachedImages of part_001: bbox and freshness decide, the list may be empty
getCachedImages_part001(st, bbox, startDate, endDate, now) ==
    LET metadata == loadMetadata(st) IN
    IF metadata.null THEN [st |-> st, ret |-> null, rebuilt |-> 0]
    ELSE LET bboxMatches == JSONstringify(metadata.val.bbox) = JSONstringify(bbox)
             cacheAge == now - metadata.val.lastUpdated
             cacheValid == cacheAge < cacheMaxAge
         IN IF ~bboxMatches \/ ~cacheValid
            THEN [st |-> st, ret |-> null, rebuilt |-> 0]
            ELSE IF ~hasImages(metadata.val)
            THEN [st |-> st, ret |-> TypeError, rebuilt |-> 0]
            ELSE [st |-> st,
                  ret |-> Some(SelectSeq(metadata.val.images, LAMBDA img :
                                   inRange(img.date, startDate, endDate))),
                  rebuilt |-> 0]

\* updateCache of part_001: the document is replaced
updateCache(st, bbox, images, now) ==
    saveMetadata(st, CacheMetadata(bbox, images, now))

\* clearCache: fs.rm(cacheDir, {recursive, force}); its error is logged and
\* dropped
clearCache_keepIndex(st) ==
    IF Faulty(st, "rm", "dir") THEN st
    ELSE [st EXCEPT !.disk = [f \in DOMAIN st.disk |->
                                 IF endsWithPng(f) THEN NoFile ELSE st.disk[f]]]

clearCache(st) ==
    IF Faulty(st, "rm", "dir") THEN st
    ELSE [st EXCEPT !.dir = FALSE, !.disk = [f \in DOMAIN st.disk |-> NoFile]]

---------------------------------------------------------------------------
(* The calls.  last records the call just made: pre is the document on disk *)
(* when the call began, appended and saved are what addImages did, rebuilt *)
(* counts the runs of rebuildMetadataFromFiles inside the call, faults     *)
(* names the system calls that failed during the call.  An action whose    *)
(* name ends in Under takes the failing calls as its first argument; the   *)
(* action without the suffix is the call on a storage where none fails.    *)

Call(op, arg, ret, appended, saved, rebuilt) ==
    [op |-> op, arg |-> arg, pre |-> loadMetadata(Storage), ret |-> ret,
     appended |-> appended, saved |-> saved, rebuilt |-> rebuilt, faults |-> {}]

\* the storage while the system calls of F fail
Under(F) == [dir |-> cacheDir, disk |-> disk, faults |-> F]

\* the two callers whose calls may overlap
Procs == {1, 2}

Idle == [op |-> "none", pc |-> "idle"]

Quiet == \A p \in Procs : calls[p] = Idle

Store(st) == cacheDir' = st.dir /\ disk' = st.disk

\* what a call that runs alone leaves
Install(st) == Store(st) /\ UNCHANGED calls

CacheImageUnder(F, date, imageData) ==
    LET r == cacheImage(Under(F), date, imageData) IN
    /\ Install(r.st)
    /\ last' = [Call("cacheImage", <<date, imageData>>, r.ret, 0, FALSE, 0)
                  EXCEPT !.faults = F]

CacheImage(date, imageData) == CacheImageUnder({}, date, imageData)

AddImagesUnder(F, newImages, now) ==
    LET r == addImages(Under(F), newImages, now) IN
    /\ Install(r.st)
    /\ last' = [Call("addImages", newImages, r.ret, r.appended, r.saved, 0)
                  EXCEPT !.faults = F]

AddImages(newImages, now) == AddImagesUnder({}, newImages, now)

GetMissingDatesUnder(F, availableDates) ==
    /\ UNCHANGED <<cacheDir, disk, calls>>
    /\ last' = [Call("getMissingDates", availableDates,
                     getMissingDates(Under(F), availableDates), 0, FALSE, 0)
                  EXCEPT !.faults = F]

GetMissingDates(availableDates) == GetMissingDatesUnder({}, availableDates)

GetCachedImagePathUnder(F, date) ==
    LET r == getCachedImagePath(Under(F), date) IN
    /\ Install(r.st)
    /\ last' = [Call("getCachedImagePath", date, r.ret, 0, FALSE, 0)
                  EXCEPT !.faults = F]

GetCachedImagePath(date) == GetCachedImagePathUnder({}, date)

GetCachedImagePath_part000(date) ==
    LET r == getCachedImagePath_part000(Storage, date) IN
    /\ Install(r.st)
    /\ last' = Call("getCachedImagePath_part000", date, r.ret, 0, FALSE, 0)

GetCachedImagesUnder(F, bbox, startDate, endDate) ==
    LET r == getCachedImages(Under(F), bbox, startDate, endDate) IN
    /\ Install(r.st)
    /\ last' = [Call("getCachedImages", <<bbox, startDate, endDate>>, r.ret,
                     0, FALSE, r.rebuilt)
                  EXCEPT !.faults = F]

GetCachedImages(bbox, startDate, endDate) ==
    GetCachedImagesUnder({}, bbox, startDate, endDate)

GetCachedImages_part000Under(F, bbox, startDate, endDate, order, mtime, now) ==
    LET r == getCachedImages_part000(Under(F), bbox, startDate, endDate,
                                     order, mtime, now) IN
    /\ Install(r.st)
    /\ last' = [Call("getCachedImages_part000", <<bbox, startDate, endDate>>, r.ret,
                     0, r.rebuilt > 0, r.rebuilt)
                  EXCEPT !.faults = F]

GetCachedImages_part000(bbox, startDate, endDate, order, mtime, now) ==
    GetCachedImages_part000Under({}, bbox, startDate, endDate, order, mtime, now)

GetCachedImages_part001(bbox, startDate, endDate, now) ==
    LET r == getCachedImages_part001(Storage, bbox, startDate, endDate, now) IN
    /\ Install(r.st)
    /\ last' = Call("getCachedImages_part001", <<bbox, startDate, endDate>>, r.ret,
                    0, FALSE, r.rebuilt)

RebuildMetadataFromFilesUnder(F, order, mtime, now) ==
    /\ Install(rebuildMetadataFromFiles(Under(F), order, mtime, now))
    /\ last' = [Call("rebuildMetadataFromFiles", <<>>, null, 0, TRUE, 1)
                  EXCEPT !.faults = F]

RebuildMetadataFromFiles(order, mtime, now) ==
    RebuildMetadataFromFilesUnder({}, order, mtime, now)

UpdateCache(bbox, images, now) ==
    /\ Install(updateCache(Storage, bbox, images, now))
    /\ last' = Call("updateCache", <<bbox, images>>, null, 0, TRUE, 0)

ClearCacheUnder(F) ==
    /\ Install(clearCache(Under(F)))
    /\ last' = [Call("clearCache", <<>>, null, 0, FALSE, 0) EXCEPT !.faults = F]

ClearCache == ClearCacheUnder({})

NoCall == [op |-> "none", arg |-> <<>>, pre |-> null, ret |-> null,
           appended |-> 0, saved |-> FALSE, rebuilt |-> 0, faults |-> {}]

---------------------------------------------------------------------------
(* Inputs *)

\* all sequences over S of length at most n
SeqsUpTo(S, n) == UNION {[1 .. k -> S] : k \in 0 .. n}

\* orders in which readdir may list the files of days 1..n: by name, and the
\* reverse of that
Orders(n) ==
    {<<metadataFile>> \o [i \in 1 .. n |-> getCacheKey(i)],
     [i \in 1 .. n |-> getCacheKey(n + 1 - i)] \o <<metadataFile>>}

\* payloads around the 10000-byte threshold
Buffers == {Buffer(MinImageBytes - 1), Buffer(MinImageBytes)}

\* the entries the images handler records: static URL, time of the fetch
HandlerEntries(dates, times) ==
    {CachedImage(d, StaticUrl(d), t) : d \in dates, t \in times}

---------------------------------------------------------------------------
(* Spec: the three variants on one cache directory, from an empty cache.   *)

Init ==
    /\ cacheDir = FALSE
    /\ disk = EmptyDisk(Dates)
    /\ last = NoCall
    /\ calls = [p \in Procs |-> Idle]

Next ==
    \/ \E d \in Dates, b \in Buffers : CacheImage(d, b)
    \/ \E E \in SeqsUpTo(HandlerEntries(Dates, {Clock(1)}), MaxLen) :
          AddImages(E, Clock(1))
    \/ \E C \in SeqsUpTo(Dates, MaxLen) : GetMissingDates(C)
    \/ \E d \in Dates : GetCachedImagePath(d)
    \/ \E d \in Dates : GetCachedImagePath_part000(d)
    \/ \E s, e \in Dates : GetCachedImages(RequestBBox, s, e)
    \/ \E s, e \in Dates, o \in Orders(NumDates) :
          GetCachedImages_part000(RequestBBox, s, e, o,
                                  [f \in FileNames(Dates) |-> Clock(1)], Clock(1))
    \/ \E b \in {RequestBBox, DefaultBBox}, s, e \in Dates,
          t \in {Clock(1), Clock(1) + cacheMaxAge} :
          GetCachedImages_part001(b, s, e, t)
    \/ \E o \in Orders(NumDates) :
          RebuildMetadataFromFiles(o, [f \in FileNames(Dates) |-> Clock(1)], Clock(1))
    \/ \E E \in SeqsUpTo(HandlerEntries(Dates, {Clock(1)}), 1) :
          UpdateCache(RequestBBox, E, Clock(1))
    \/ ClearCache

Spec == Init /\ [][Next]_vars

---------------------------------------------------------------------------
(* SpecMerge: the index operations alone, on entries with different        *)
(* timestamps and at different readings of the clock.                      *)

\* the lists of at most n entries of pool that name no date twice
DistinctDateLists(pool, n) ==
    {E \in SeqsUpTo(pool, n) : Cardinality(datesOf(E)) = Len(E)}

\* two readings of the clock: what tells an entry, or a save, from a later one
Stamps == {Clock(1), Clock(2)}

NextMerge ==
    \/ \E E \in DistinctDateLists(HandlerEntries(Dates, Stamps), MaxLen), now \in Stamps :
          AddImages(E, now)
    \/ \E C \in SeqsUpTo(Dates, MaxLen) : GetMissingDates(C)
    \/ ClearCache

SpecMerge == Init /\ [][NextMerge]_vars

---------------------------------------------------------------------------
(* What the claims read *)

toSet(seq) == {seq[i] : i \in DOMAIN seq}

\* the entries of the index on disk, <<>> when there is no index
imagesOf(loaded) == IF loaded.null THEN <<>> ELSE loaded.val.images
indexImages == imagesOf(loadMetadata(Storage))
indexImagesNext == imagesOf(loadMetadata([dir |-> cacheDir', disk |-> disk']))

\* the storage with the index put back to what a call found
storageBefore(call) ==
    IF call.pre.null THEN unlink(Storage, metadataFile)
    ELSE writeFile(Storage, metadataFile, JSONstringify(call.pre.val))

disjointLists(E1, E2) ==
    /\ Cardinality(datesOf(E1)) = Len(E1)
    /\ Cardinality(datesOf(E2)) = Len(E2)
    /\ datesOf(E1) \cap datesOf(E2) = {}

\* the entries of E whose date the list prior does not hold
newOf(E, prior) == {e \in toSet(E) : e.date \notin datesOf(prior)}

---------------------------------------------------------------------------
(* C1 as stated: after addImages(E1); addImages(E2) with disjoint date     *)
(* sets the entries of the index are exactly the prior entries plus        *)
(* E1 \cup E2.                                                             *)
C1_AsStated ==
    [][(/\ last.op = "addImages"
        /\ last'.op = "addImages"
        /\ disjointLists(last.arg, last'.arg))
       => toSet(indexImagesNext)
            = toSet(imagesOf(last.pre)) \cup toSet(last.arg) \cup toSet(last'.arg)]_vars

(* C1 as amended: after addImages(E1); addImages(E2) with disjoint date    *)
(* sets the entries of the index are exactly the prior entries plus the    *)
(* entries of E1 \cup E2 whose date had no prior entry (from an empty or   *)
(* absent index: exactly E1 \cup E2), and addImages(E2); addImages(E1)     *)
(* from the same prior index leaves the same set of entries.               *)
C1_MergeDisjoint ==
    [][(/\ last.op = "addImages"
        /\ last'.op = "addImages"
        /\ disjointLists(last.arg, last'.arg))
       => LET prior == imagesOf(last.pre)
              E1 == last.arg
              E2 == last'.arg
              st0 == storageBefore(last)
              swapped == addImages(addImages(st0, E2, Clock(1)).st, E1, Clock(1)).st
          IN /\ toSet(indexImagesNext)
                  = toSet(prior) \cup newOf(E1, prior) \cup newOf(E2, prior)
             /\ toSet(imagesOf(loadMetadata(swapped))) = toSet(indexImagesNext)
             /\ prior = <<>> => toSet(indexImagesNext) = toSet(E1) \cup toSet(E2)]_vars

\* a second addImages has just appended entries behind those of a first one,
\* and dropped an entry whose date the prior index already held
C1_Witness ==
    /\ last.op = "addImages"
    /\ last.appended > 0
    /\ ~last.pre.null
    /\ Len(last.pre.val.images) > 0
    /\ Len(indexImages) = Len(last.pre.val.images) + last.appended
    /\ \E i \in DOMAIN last.arg :
          /\ last.arg[i].date \in datesOf(last.pre.val.images)
          /\ last.arg[i] \notin toSet(indexImages)

(* C2: addImages(E) made twice in a row: the second call leaves the        *)
(* directory and the index document as the first left them (same entries   *)
(* in the same order, same lastUpdated), appends nothing and does not save.*)
C2_Idempotent ==
    [][(/\ last.op = "addImages"
        /\ last'.op = "addImages"
        /\ last'.arg = last.arg)
       => /\ disk' = disk
          /\ cacheDir' = cacheDir
          /\ last'.appended = 0
          /\ ~last'.saved]_vars

\* a call of addImages found all of its entries at the end of the index, as
\* the same call before it had left them, and appended nothing
C2_Witness ==
    /\ last.op = "addImages"
    /\ Len(last.arg) > 0
    /\ last.appended = 0
    /\ ~last.saved
    /\ last.pre = loadMetadata(Storage)
    /\ Len(indexImages) >= Len(last.arg)
    /\ SubSeq(indexImages, Len(indexImages) - Len(last.arg) + 1, Len(indexImages))
         = last.arg

\* the places of the list images that hold an entry of the day date
placesOf(images, date) == {i \in DOMAIN images : images[i].date = date}

(* C4: addImages is first-write-wins: an entry the index held for a date   *)
(* that the new list names is, after the call, the same entry (imageUrl    *)
(* and timestamp) at the same place, and the date has no other entry than  *)
(* before.                                                                 *)
C4_FirstWriteWins ==
    (last.op = "addImages" /\ ~last.pre.null)
    => \A d \in datesOf(last.pre.val.images) \cap datesOf(last.arg) :
          /\ placesOf(indexImages, d) = placesOf(last.pre.val.images, d)
          /\ \A i \in placesOf(last.pre.val.images, d) :
                indexImages[i] = last.pre.val.images[i]

\* addImages was handed another entry for a date of the index, next to an
\* entry that it appended
C4_Witness ==
    /\ last.op = "addImages"
    /\ ~last.pre.null
    /\ last.appended > 0
    /\ \E i \in DOMAIN last.arg :
          /\ last.arg[i].date \in datesOf(last.pre.val.images)
          /\ last.arg[i] \notin toSet(last.pre.val.images)

(* C7: getMissingDates(C) holds no date that has an index entry, and its   *)
(* dates together with the candidates that have an index entry are the     *)
(* dates of C; with no index every candidate is missing.                   *)
C7_MissingPartition ==
    last.op = "getMissingDates"
    => LET missing == toSet(last.ret.val)
           candidates == toSet(last.arg)
           indexDates == datesOf(indexImages)
       IN /\ missing \cap indexDates = {}
          /\ missing \cup (candidates \cap indexDates) = candidates
          /\ loadMetadata(Storage).null => last.ret.val = last.arg

\* getMissingDates was asked about a date of the index and a date outside it
C7_Witness ==
    /\ last.op = "getMissingDates"
    /\ toSet(last.ret.val) # {}
    /\ toSet(last.arg) \cap datesOf(indexImages) # {}

---------------------------------------------------------------------------
(* C3: in every state reached from an empty cache by addImages,            *)
(* cacheImage, getCachedImages, getMissingDates, rebuildMetadataFromFiles  *)
(* and clearCache the index holds no two entries of the same date.         *)
C3_NoDuplicateDates ==
    Cardinality(datesOf(indexImages)) = Len(indexImages)

---------------------------------------------------------------------------
(* SpecRead: blobs on both sides of the size threshold, an index built by  *)
(* addImages and by rebuilds, and the range queries of lib/image-cache.ts  *)
(* and part_000.                                                           *)

NextRead ==
    \/ \E d \in Dates, b \in Buffers : CacheImage(d, b)
    \/ \E E \in DistinctDateLists(HandlerEntries(Dates, {Clock(1)}), MaxLen) :
          AddImages(E, Clock(1))
    \/ \E s, e \in Dates : GetCachedImages(RequestBBox, s, e)
    \/ \E s, e \in Dates, o \in Orders(NumDates) :
          GetCachedImages_part000(RequestBBox, s, e, o,
                                  [f \in FileNames(Dates) |-> Clock(2)], Clock(2))
    \/ \E d \in Dates : GetCachedImagePath(d)
    \/ ClearCache

SpecRead == Init /\ [][NextRead]_vars

\* the blob of the day date is there and has at least 10000 bytes
validBlob(st, date) ==
    exists(st, getCacheKey(date)) /\ st.disk[getCacheKey(date)].length >= MinImageBytes

\* the blob of the day date is there and has fewer than 10000 bytes
smallBlob(st, date) ==
    exists(st, getCacheKey(date)) /\ st.disk[getCacheKey(date)].length < MinImageBytes

\* startDate <= date <= endDate as calendar days
withinDays(date, startDate, endDate) == startDate <= date /\ date <= endDate

isRangeQuery(call) == call.op \in {"getCachedImages", "getCachedImages_part000"}

---------------------------------------------------------------------------
(* C6: getCachedImages returns null when it has no index to read (none on  *)
(* disk once its reconciliation is over) and when no entry of the range    *)
(* survives; it never returns an empty list (the three variants).          *)
C6_NullNeverEmpty ==
    last.op \in {"getCachedImages", "getCachedImages_part000", "getCachedImages_part001"}
    => /\ loadMetadata(Storage).null => last.ret.null
       /\ ~last.ret.null => Len(last.ret.val) > 0

---------------------------------------------------------------------------
(* Repair: a cache directory of NumRepairDates days, so that the counts of *)
(* blobs and of index entries can drift apart by more than Slack.  Blobs   *)
(* are written from the last day downwards and entries appended from the   *)
(* first day upwards, one a call; the blob of the last day may be small.   *)

InitRepair ==
    /\ cacheDir = FALSE
    /\ disk = EmptyDisk(RepairDates)
    /\ last = NoCall
    /\ calls = [p \in Procs |-> Idle]

\* the .png files of the directory
pngFilesOf(st) == {f \in DOMAIN st.disk : endsWithPng(f) /\ exists(st, f)}

\* days that have a blob, days that have an index entry
blobDates(st) == {replacePng(f) : f \in pngFilesOf(st)}

\* d is the last day of S, the first day of S
isMax(d, S) == d \in S /\ \A y \in S : y <= d

isMin(d, S) == d \in S /\ \A y \in S : d <= y

mtimeRepair == [f \in FileNames(RepairDates) |-> Clock(2)]

NextRepair ==
    \/ \E d \in RepairDates, b \in Buffers :
          /\ isMax(d, RepairDates \ blobDates(Storage))
          /\ b.length < MinImageBytes => d = NumRepairDates
          /\ CacheImage(d, b)
    \/ \E d \in RepairDates :
          /\ isMin(d, RepairDates \ datesOf(indexImages))
          /\ AddImages(<<CachedImage(d, StaticUrl(d), Clock(1))>>, Clock(1))
    \/ \E s \in {1, NumRepairDates} : GetCachedImages(RequestBBox, s, NumRepairDates)
    \/ \E s \in {1, NumRepairDates}, o \in Orders(NumRepairDates) :
          GetCachedImages_part000(RequestBBox, s, NumRepairDates, o,
                                  mtimeRepair, Clock(2))
    \/ \E o \in Orders(NumRepairDates) :
          RebuildMetadataFromFiles(o, mtimeRepair, Clock(2))
    \/ ClearCache

SpecRepair == InitRepair /\ [][NextRepair]_vars

\* the days of the entries a range query gave back
returnedDates(ret) == IF ret.null THEN {} ELSE datesOf(ret.val)

ascending(images) ==
    \A i, j \in DOMAIN images :
        i < j => NewDate(images[i].date) < NewDate(images[j].date)

(* C9: when rebuildMetadataFromFiles has completed, the index has exactly  *)
(* one entry for each .png file of the directory, whatever its size, none  *)
(* for metadata.json, and its entries ascend by date.                      *)
C9_RebuildFromFiles ==
    last.op = "rebuildMetadataFromFiles"
    => /\ ~loadMetadata(Storage).null
       /\ Len(indexImages) = Cardinality(pngFilesOf(Storage))
       /\ \A f \in pngFilesOf(Storage) :
             Cardinality({i \in DOMAIN indexImages :
                             indexImages[i].date = replacePng(f)}) = 1
       /\ \A i \in DOMAIN indexImages :
             getCacheKey(indexImages[i].date) \in pngFilesOf(Storage)
       /\ ascending(indexImages)

\* a rebuild over an index that was there, with a small blob among several
C9_Witness ==
    /\ last.op = "rebuildMetadataFromFiles"
    /\ ~last.pre.null
    /\ datesOf(last.pre.val.images) # blobDates(Storage)
    /\ Cardinality(pngFilesOf(Storage)) >= 2
    /\ smallBlob(Storage, NumRepairDates)
    /\ Len(indexImages) = Cardinality(pngFilesOf(Storage))

---------------------------------------------------------------------------
\* every blob of the directory has at least 10000 bytes
allBlobsValid(st) == \A d \in blobDates(st) : validBlob(st, d)

(* C11: when there is no index document while N >= 1 valid blobs are on    *)
(* disk, the next getCachedImages over a range that covers their dates     *)
(* rebuilds the index and returns exactly N entries, those of the blobs,   *)
(* and the rebuilt index carries the default bounding box.                 *)
C11_RebuildOnAbsentIndex ==
    [][(/\ isRangeQuery(last')
        /\ last'.pre.null
        /\ blobDates(Storage) # {}
        /\ allBlobsValid(Storage)
        /\ \A d \in blobDates(Storage) : withinDays(d, last'.arg[2], last'.arg[3]))
       => /\ ~last'.ret.null
          /\ Len(last'.ret.val) = Cardinality(blobDates(Storage))
          /\ returnedDates(last'.ret) = blobDates(Storage)
          /\ ~loadMetadata([dir |-> cacheDir', disk |-> disk']).null
          /\ loadMetadata([dir |-> cacheDir', disk |-> disk']).val.bbox = DefaultBBox]_vars

---------------------------------------------------------------------------
\* no file at all in the cache directory
emptyCache(st) == \A f \in DOMAIN st.disk : ~exists(st, f)

(* C12: on an empty cache getCachedImages returns null; once                *)
(* cacheImage(d, payload of at least 10000 bytes) has written the blob and *)
(* addImages([entry of d]) has appended its one entry to an index without  *)
(* entries, getCachedImages over a range containing d returns a list of    *)
(* exactly one entry, dated d.                                             *)
C12_EmptyThenOne ==
    [][isRangeQuery(last')
       => /\ emptyCache(Storage) => last'.ret.null
          /\ (/\ last.op = "addImages"
              /\ Len(last.arg) = 1
              /\ last.appended = 1
              /\ indexImages = last.arg
              /\ validBlob(Storage, last.arg[1].date)
              /\ withinDays(last.arg[1].date, last'.arg[2], last'.arg[3]))
             => /\ ~last'.ret.null
                /\ Len(last'.ret.val) = 1
                /\ last'.ret.val[1].date = last.arg[1].date]_vars

\* getCachedImages of lib/image-cache.ts gave back the one entry of an index
\* of one entry, its blob of exactly 10000 bytes being the only one
C12_Witness ==
    /\ last.op = "getCachedImages"
    /\ ~last.ret.null
    /\ Len(last.ret.val) = 1
    /\ Len(indexImages) = 1
    /\ blobDates(Storage) = {last.ret.val[1].date}
    /\ disk[getCacheKey(last.ret.val[1].date)] = Buffer(MinImageBytes)
    /\ last.ret.val[1].imageUrl = DataUrl(Buffer(MinImageBytes))

(* C13: when cacheImage has stored a payload of fewer than 10000 bytes for *)
(* d, getCachedImages (lib/image-cache.ts) over a range containing d       *)
(* returns no entry of d and leaves no blob of d, whether or not the index *)
(* has an entry of d.                                                      *)
C13_SmallBlobReadBack ==
    [][\A d \in Dates :
         (/\ smallBlob(Storage, d)
          /\ last'.op = "getCachedImages"
          /\ withinDays(d, last'.arg[2], last'.arg[3]))
         => /\ d \notin returnedDates(last'.ret)
            /\ disk'[getCacheKey(d)] = NoFile]_vars

---------------------------------------------------------------------------
(* SpecFault: the calls of lib/image-cache.ts and the rebuild of part_000  *)
(* on a storage whose system calls may fail, one kind of failure a call,   *)
(* and an index file that something else than the cache may overwrite.     *)

\* what fails while a blob is written, the index is saved, something is read
WriteFaults == {{}, {<<"mkdir", "dir">>}, {<<"writeFile", "blob">>},
                {<<"truncate", "blob">>}}

SaveFaults == {{}, {<<"mkdir", "dir">>}, {<<"writeFile", "index">>},
               {<<"truncate", "index">>}}

ReadFaults == {{}, {<<"readFile", "index">>}, {<<"access", "blob">>},
               {<<"readFile", "blob">>}, {<<"unlink", "blob">>}}

RebuildFaults == SaveFaults \cup {{<<"readdir", "dir">>}, {<<"stat", "blob">>}}

\* an index file that JSON.parse rejects (an empty file), and one that parses
\* to an object without images
MalformedIndex ==
    {Buffer(0), JSONstringify([bbox |-> ZeroBBox, lastUpdated |-> Clock(1)])}

\* the index file is overwritten or removed from outside the cache
OutOfBand(content) ==
    /\ cacheDir
    /\ disk[metadataFile] # content
    /\ disk' = [disk EXCEPT ![metadataFile] = content]
    /\ UNCHANGED <<cacheDir, calls>>
    /\ last' = Call("outOfBand", content, null, 0, FALSE, 0)

NextFault ==
    \/ \E F \in WriteFaults, d \in Dates, b \in Buffers : CacheImageUnder(F, d, b)
    \/ \E F \in SaveFaults \cup {{<<"readFile", "index">>}},
          E \in SeqsUpTo(HandlerEntries(Dates, {Clock(1)}), 1) :
          AddImagesUnder(F, E, Clock(2))
    \/ \E F \in {{}, {<<"readFile", "index">>}}, C \in SeqsUpTo(Dates, MaxLen) :
          GetMissingDatesUnder(F, C)
    \/ \E F \in ReadFaults, d \in Dates : GetCachedImagePathUnder(F, d)
    \/ \E F \in ReadFaults : GetCachedImagesUnder(F, RequestBBox, 1, NumDates)
    \/ \E F \in RebuildFaults, o \in Orders(NumDates) :
          RebuildMetadataFromFilesUnder(F, o, [f \in FileNames(Dates) |-> Clock(1)],
                                        Clock(2))
    \/ \E content \in MalformedIndex \cup {NoFile} : OutOfBand(content)
    \/ \E F \in {{}, {<<"rm", "dir">>}} : ClearCacheUnder(F)

SpecFault == Init /\ [][NextFault]_vars

\* the write of the blob failed in the call: no directory to write into
\* (dirThere tells whether there is one after the call), or fs.writeFile
\* rejected
blobWriteFailed(call, dirThere) ==
    \/ ~dirThere
    \/ <<"writeFile", "blob">> \in call.faults
    \/ <<"truncate", "blob">> \in call.faults

(* C14: when the write of the blob fails, cacheImage throws instead of     *)
(* returning a reference and leaves the index file as it was; so too when  *)
(* the directory could not be created and that error was dropped.  A       *)
(* reference is returned only for a payload that is on disk.               *)
C14_WriteFailurePropagates ==
    [][last'.op = "cacheImage"
       => /\ blobWriteFailed(last', cacheDir')
               => /\ threw(last'.ret)
                  /\ disk'[metadataFile] = disk[metadataFile]
          /\ ~threw(last'.ret)
               => /\ cacheDir'
                  /\ disk'[getCacheKey(last'.arg[1])] = last'.arg[2]]_vars

\* cacheImage threw because the directory could not be created
C14_Witness ==
    /\ last.op = "cacheImage"
    /\ last.faults = {<<"mkdir", "dir">>}
    /\ ~cacheDir
    /\ threw(last.ret)

---------------------------------------------------------------------------
(* The images handler (src/pages/api/images.ts, POST) on the cache of      *)
(* lib/image-cache.ts.  A payload has a length and leading bytes that are  *)
(* the PNG signature or not; upstream[date] is what the imagery service    *)
(* answers for that date.                                                  *)

Payload(n, png) == [length |-> n, png |-> png]

\* base64Data = imageUrl.replace(prefix, ''); Buffer.from(base64Data, 'base64')
bufferOf(imageUrl) == imageUrl[2]

\* answers of the service to the primary and the fallback request for a date;
\* recent tells that the date is within the last 60 days
Answer(primaryOk, primary, recent, fallbackOk, fallback) ==
    [primaryOk |-> primaryOk, primary |-> primary, recent |-> recent,
     fallbackOk |-> fallbackOk, fallback |-> fallback]

\* getImageForDate: a data URL or null
getImageForDate(answer) ==
    IF ~answer.primaryOk
    THEN IF answer.recent
         THEN IF ~answer.fallbackOk THEN null
              ELSE IF answer.fallback.length < FallbackMinBytes THEN null
              ELSE Some(DataUrl(answer.fallback))
         ELSE null
    ELSE IF answer.primary.length < FetchMinBytes THEN null
    ELSE IF ~answer.primary.png THEN null
    ELSE Some(DataUrl(answer.primary))

slice_whole(seq, n) == seq

\* the first n elements of a list
slice(seq, n) == SubSeq(seq, 1, IF n < Len(seq) THEN n ELSE Len(seq))

longEnough_atLeast(imageBuffer) == imageBuffer.length >= HandlerMinBytes

\* if (imageBuffer.length > 10000): the handler stores the image
longEnough(imageBuffer) == imageBuffer.length > HandlerMinBytes

\* the storage as cacheImage finds it for dateStr: the write of the blob is
\* rejected for the dates of failing
blobStore(st, failing, dateStr) ==
    IF dateStr \in failing
    THEN [dir |-> st.dir, disk |-> st.disk, faults |-> {<<"writeFile", "blob">>}]
    ELSE st

\* what the loop starts with: no entry, no date tried, no image accepted, no
\* blob stored, no write refused
LoopStart(st, failing) ==
    [st |-> st, newImages |-> <<>>, attempted |-> <<>>, accepted |-> {},
     stored |-> {}, refused |-> {}, failing |-> failing]

RECURSIVE fetchMissing(_, _, _, _, _)

fetchMissing_pushFailed(datesToFetch, i, upstream, now, acc) ==
    IF i > Len(datesToFetch) THEN acc
    ELSE LET dateStr == datesToFetch[i]
             imageUrl == getImageForDate(upstream[dateStr])
             imageBuffer == bufferOf(imageUrl.val)
             cached == cacheImage(blobStore(acc.st, acc.failing, dateStr),
                                  dateStr, imageBuffer)
             left == [dir |-> cached.st.dir, disk |-> cached.st.disk]
             entry == CachedImage(dateStr, StaticUrl(dateStr), now)
             tried == [acc EXCEPT !.attempted = Append(@, dateStr),
                                  !.accepted = IF imageUrl.null THEN @
                                               ELSE @ \cup {dateStr}]
             kept == <<dateStr, imageBuffer.length>>
         IN IF imageUrl.null \/ ~longEnough(imageBuffer)
            THEN fetchMissing(datesToFetch, i + 1, upstream, now, tried)
            ELSE fetchMissing(datesToFetch, i + 1, upstream, now,
                              [tried EXCEPT !.st = left,
                                            !.newImages = Append(@, entry),
                                            !.stored = IF threw(cached.ret) THEN @
                                                       ELSE @ \cup {kept},
                                            !.refused = IF threw(cached.ret)
                                                        THEN @ \cup {dateStr}
                                                        ELSE @])

\* the loop of the handler over datesToFetch, from date i on; acc is what the
\* loop has so far: the storage, the entries of newImages, the dates it asked
\* the service for, the dates getImageForDate gave an image for, the dates
\* whose cacheImage call completed with the length of what it stored, the
\* dates whose cacheImage call threw, and the dates for which the write of the
\* blob is rejected
fetchMissing(datesToFetch, i, upstream, now, acc) ==
    IF i > Len(datesToFetch) THEN acc
    ELSE LET dateStr == datesToFetch[i]
             imageUrl == getImageForDate(upstream[dateStr])
             imageBuffer == bufferOf(imageUrl.val)
             cached == cacheImage(blobStore(acc.st, acc.failing, dateStr),
                                  dateStr, imageBuffer)
             left == [dir |-> cached.st.dir, disk |-> cached.st.disk]
             entry == CachedImage(dateStr, StaticUrl(dateStr), now)
             tried == [acc EXCEPT !.attempted = Append(@, dateStr),
                                  !.accepted = IF imageUrl.null THEN @
                                               ELSE @ \cup {dateStr}]
             kept == <<dateStr, imageBuffer.length>>
         IN IF imageUrl.null
            THEN fetchMissing(datesToFetch, i + 1, upstream, now, tried)
            ELSE IF longEnough(imageBuffer)
            THEN IF threw(cached.ret)
                 THEN fetchMissing(datesToFetch, i + 1, upstream, now,
                                   [tried EXCEPT !.st = left,
                                                 !.refused = @ \cup {dateStr}])
                 ELSE fetchMissing(datesToFetch, i + 1, upstream, now,
                                   [tried EXCEPT !.st = left,
                                                 !.newImages = Append(@, entry),
                                                 !.stored = @ \cup {kept}])
            ELSE fetchMissing(datesToFetch, i + 1, upstream, now, tried)

\* the body of a response of the handler
ImagesResponse(images, newImages, availableDates, remaining) ==
    [status |-> 200, images |-> images,
     source |-> IF Len(newImages) > 0 THEN "mixed" ELSE "repository",
     newImageCount |-> Len(newImages), totalImageCount |-> Len(images),
     availableImageCount |-> Len(availableDates), remainingToFetch |-> remaining]

ErrorResponse == [status |-> 500, error |-> "Failed to fetch images"]

\* POST of images.ts; search is what searchAvailableImages (or the sampling
\* that replaces an empty answer) gave: a list of dates, ascending and without
\* repetition, or the exception of a failed authentication; failing are the
\* dates for which the write of the blob is rejected.  Gives the storage
\* left, the response, and what the request did: the entries handed to
\* addImages, the dates getMissingDates gave, the dates it asked the service
\* for and the dates whose cacheImage call completed.
POSTUnder(failing, st, startDate, endDate, bbox, fetchMore, search, upstream, now) ==
    LET availableDates == search.val
        existing == getCachedImages(st, bbox, startDate, endDate)
        missing == getMissingDates(existing.st, availableDates)
        datesToFetch == slice(missing.val, MaxFetchCount)
        fetched == fetchMissing(datesToFetch, 1, upstream, now,
                                LoopStart(existing.st, failing))
        added == IF Len(fetched.newImages) > 0
                 THEN addImages(fetched.st, fetched.newImages, now)
                 ELSE [st |-> fetched.st, ret |-> null]
        all == getCachedImages(added.st, bbox, startDate, endDate)
        allImages == IF all.ret.null THEN <<>> ELSE all.ret.val
        none == [newImages |-> <<>>, missing |-> <<>>, attempted |-> <<>>,
                 accepted |-> {}, stored |-> {}, refused |-> {}, added |-> FALSE]
        done == [newImages |-> fetched.newImages, missing |-> missing.val,
                 attempted |-> fetched.attempted, accepted |-> fetched.accepted,
                 stored |-> fetched.stored, refused |-> fetched.refused,
                 added |-> Len(fetched.newImages) > 0]
    IN IF threw(search)
       THEN [st |-> st, response |-> ErrorResponse] @@ none
       ELSE IF threw(existing.ret)
       THEN [st |-> existing.st, response |-> ErrorResponse] @@ none
       ELSE IF ~existing.ret.null /\ Len(existing.ret.val) >= MinCachedToServe
               /\ ~fetchMore
       THEN [st |-> existing.st,
             response |-> ImagesResponse(existing.ret.val, <<>>, availableDates, 0)]
            @@ none
       ELSE IF threw(missing)
       THEN [st |-> existing.st, response |-> ErrorResponse] @@ none
       ELSE IF threw(added.ret)
       THEN [st |-> added.st, response |-> ErrorResponse] @@ done
       ELSE IF threw(all.ret)
       THEN [st |-> all.st, response |-> ErrorResponse] @@ done
       ELSE [st |-> all.st,
             response |-> ImagesResponse(allImages, fetched.newImages, availableDates,
                                         Len(missing.val) - Len(datesToFetch))]
            @@ done

POST(st, startDate, endDate, bbox, fetchMore, search, upstream, now) ==
    POSTUnder({}, st, startDate, endDate, bbox, fetchMore, search, upstream, now)

\* the record of a request that gave r: appended counts the entries handed
\* to addImages, did is what the request did on the way
Served(startDate, endDate, fetchMore, search, r) ==
    Call("POST", <<startDate, endDate, fetchMore, search>>,
         Some(r.response), Len(r.newImages), Len(r.newImages) > 0, 0)
    @@ [did |-> [newImages |-> r.newImages, missing |-> r.missing,
                 attempted |-> r.attempted, accepted |-> r.accepted,
                 stored |-> r.stored, refused |-> r.refused, added |-> r.added]]

\* one request to the handler while the writes of the blobs of failing are
\* rejected
PostUnder(failing, startDate, endDate, fetchMore, search, upstream, now) ==
    LET r == POSTUnder(failing, Storage, startDate, endDate, RequestBBox, fetchMore,
                       search, upstream, now) IN
    /\ Install(r.st)
    /\ last' = Served(startDate, endDate, fetchMore, search, r)

Post(startDate, endDate, fetchMore, search, upstream, now) ==
    PostUnder({}, startDate, endDate, fetchMore, search, upstream, now)

\* POST of the clear-cache route
PostClearCache ==
    /\ Install(clearCache(Storage))
    /\ last' = Call("POST clear-cache", <<>>,
                    Some([success |-> TRUE, message |-> "Cache cleared successfully"]),
                    0, FALSE, 0)

---------------------------------------------------------------------------
(* SpecFetch: requests to the handler, with direct cacheImage calls and    *)
(* the clear-cache route, from an empty cache.                             *)

\* lengths around the three thresholds
PayloadLengths == {FallbackMinBytes - 1, HandlerMinBytes, HandlerMinBytes + 1}

\* PNG payloads of these lengths, and a long payload that is no PNG
Payloads ==
    {Payload(n, TRUE) : n \in PayloadLengths}
    \cup {Payload(HandlerMinBytes + 1, FALSE)}

GoodPayload == Payload(HandlerMinBytes + 1, TRUE)

\* the answers of the service for one date
Answers ==
    {Answer(TRUE, p, FALSE, FALSE, p) : p \in Payloads}
    \cup {Answer(FALSE, GoodPayload, recent, FALSE, GoodPayload) : recent \in BOOLEAN}
    \cup {Answer(FALSE, GoodPayload, TRUE, TRUE, p) : p \in Payloads}

GoodAnswer == Answer(TRUE, GoodPayload, FALSE, FALSE, GoodPayload)

\* the service answers every date with a good image, but for one of the
\* dates asked for
Upstreams(search) ==
    {[d \in Dates |-> GoodAnswer]}
    \cup IF threw(search) THEN {}
         ELSE {[d \in Dates |-> IF d = x THEN a ELSE GoodAnswer] :
                  x \in toSet(search.val), a \in Answers}

\* what the search for available dates may give
Searches ==
    {Some(A) : A \in {B \in SeqsUpTo(Dates, NumDates) :
                         \A i, j \in 1 .. Len(B) : i < j => B[i] < B[j]}}
    \cup {Thrown("Authentication failed")}

\* NumDates < MinCachedToServe: no request finds five images, and the handler
\* tests fetchMore only after finding five
NextFetch ==
    \/ \E A \in Searches : \E u \in Upstreams(A) :
          Post(1, NumDates, FALSE, A, u, Clock(2))
    \/ \E d \in Dates, p \in {Payload(MinImageBytes - 1, TRUE), GoodPayload} :
          CacheImage(d, p)
    \/ PostClearCache

SpecFetch == Init /\ [][NextFetch]_vars

\* (C15) cacheImage never persists a payload the validator rejects: no blob
\* in the cache is shorter than the validity threshold, whatever cacheImage
\* calls were made
C15_NoShortBlob ==
    \A f \in pngFilesOf(Storage) : disk[f].length >= MinImageBytes

\* cacheImage stores the payload it is given, whatever its length; the
\* validation at write time is the handler's: every blob a request to the
\* images handler writes is longer than 10000 bytes
HandlerStoresLongOnly ==
    [][/\ last'.op = "cacheImage" /\ ~threw(last'.ret)
          => disk'[getCacheKey(last'.arg[1])] = last'.arg[2]
       /\ last'.op = "POST"
          => \A f \in pngFilesOf([dir |-> cacheDir', disk |-> disk']) :
                disk'[f] # disk[f] => disk'[f].length > HandlerMinBytes]_vars

\* a request stored one new image, beside a short blob that a direct
\* cacheImage call had stored
HandlerStoredOne ==
    /\ last.op = "POST"
    /\ last.ret.val.status = 200
    /\ last.ret.val.newImageCount = 1
    /\ \E d, e \in Dates :
          /\ d \notin datesOf(imagesOf(last.pre))
          /\ d \in datesOf(indexImages)
          /\ validBlob(Storage, d)
          /\ smallBlob(Storage, e)

\* (C16) a payload whose leading bytes are not the PNG signature is never
\* accepted into the store, on the primary or the fallback path of the fetch,
\* and is never returned by getCachedImages: every blob the handler leaves in
\* the cache, and every image of its response, carries the signature
C16_BadSignatureRejected ==
    /\ \A f \in pngFilesOf(Storage) : disk[f].png
    /\ (last.op = "POST" /\ last.ret.val.status = 200)
          => \A i \in DOMAIN last.ret.val.images :
                bufferOf(last.ret.val.images[i].imageUrl).png

\* the storage without its index document
withoutIndex(st) == [st EXCEPT !.disk[metadataFile] = NoFile]

\* (C17) an index document that is not parseable, or parseable but without
\* the entries list, is treated as absent: getCachedImages, getMissingDates
\* and addImages do not throw and do what they do on the same storage with
\* no index document
C17_MalformedAsAbsent ==
    [][(disk[metadataFile] \in MalformedIndex /\ last'.faults = {})
          => /\ last'.op = "getCachedImages"
                => LET r == getCachedImages(withoutIndex(Storage), last'.arg[1],
                                            last'.arg[2], last'.arg[3]) IN
                   /\ ~threw(last'.ret)
                   /\ last'.ret = r.ret
                   /\ disk' = disk
             /\ last'.op = "getMissingDates"
                => /\ ~threw(last'.ret)
                   /\ last'.ret = getMissingDates(withoutIndex(Storage), last'.arg)
             /\ last'.op = "addImages"
                => \E now \in Stamps :
                      LET r == addImages(withoutIndex(Storage), last'.arg, now) IN
                      /\ ~threw(last'.ret)
                      /\ last'.ret = r.ret
                      /\ loadMetadata([dir |-> cacheDir', disk |-> disk'])
                            = loadMetadata(r.st)]_vars

\* the save of the call was tried and fs.writeFile of metadata.json rejected
indexWriteFailed(call, dirThere) ==
    /\ call.saved
    /\ \/ ~dirThere
       \/ <<"writeFile", "index">> \in call.faults
       \/ <<"truncate", "index">> \in call.faults

\* (C19) saves of the index are best-effort: when persisting fails, addImages
\* and rebuildMetadataFromFiles complete without an error and the index
\* document on disk reads as it read before the call
C19_SaveBestEffort ==
    [][(/\ last'.op \in {"addImages", "rebuildMetadataFromFiles"}
        /\ indexWriteFailed(last', cacheDir')
        /\ last'.pre.null \/ hasImages(last'.pre.val))
          => /\ ~threw(last'.ret)
             /\ loadMetadata([dir |-> cacheDir', disk |-> disk']) = last'.pre]_vars

---------------------------------------------------------------------------
(* SpecRepairFault: the read paths on the directory of NumRepairDates days *)
(* while system calls fail.                                                *)

\* failures during a range query of part_000: of the reads, of the listing,
\* and of the save of the rebuild inside the query
QueryFaults ==
    {{}, {<<"readFile", "index">>}, {<<"access", "blob">>}, {<<"readdir", "dir">>},
     {<<"stat", "blob">>}, {<<"writeFile", "index">>}, {<<"truncate", "index">>}}

NextRepairFault ==
    \/ \E d \in RepairDates :
          /\ isMax(d, RepairDates \ blobDates(Storage))
          /\ CacheImage(d, Buffer(MinImageBytes))
    \/ \E d \in RepairDates :
          /\ isMin(d, RepairDates \ datesOf(indexImages))
          /\ AddImages(<<CachedImage(d, StaticUrl(d), Clock(1))>>, Clock(1))
    \/ \E F \in ReadFaults : GetCachedImagesUnder(F, RequestBBox, 1, NumRepairDates)
    \/ \E F \in QueryFaults :
          GetCachedImages_part000Under(F, RequestBBox, 1, NumRepairDates,
                                       <<metadataFile>> \o [i \in 1 .. NumRepairDates |-> getCacheKey(i)],
                                       mtimeRepair, Clock(2))
    \/ \E F \in ReadFaults, d \in {1, NumRepairDates} : GetCachedImagePathUnder(F, d)
    \/ \E F \in {{}, {<<"readFile", "index">>}} :
          GetMissingDatesUnder(F, <<1, NumRepairDates>>)

SpecRepairFault == InitRepair /\ [][NextRepairFault]_vars

isReadPath(call) ==
    call.op \in {"getCachedImages", "getCachedImages_part000", "getCachedImagePath",
                 "getMissingDates"}

\* (C18) the read paths never propagate a failure: whatever system call
\* fails, getCachedImages, getCachedImagePath and getMissingDates return
\* (absent, or a value) and do not throw, on a directory whose index document
\* is missing, unparseable or well-formed
C18_ReadsNeverThrow ==
    [][(isReadPath(last') /\ (last'.pre.null \/ hasImages(last'.pre.val)))
          => ~threw(last'.ret)]_vars

---------------------------------------------------------------------------
\* the call was clearCache, and fs.rm did not fail
cleared(call) == call.op = "clearCache" /\ call.faults = {}

\* (C20) clearCache removes every blob and the index, and returns without
\* an error also when the cache directory does not exist; the call made
\* immediately after it finds nothing: getCachedImages (of each variant)
\* returns null for every range and getMissingDates(C) returns C for every
\* candidate list C
C20_ClearCache ==
    [][/\ cleared(last')
          => /\ ~threw(last'.ret)
             /\ emptyCache([dir |-> cacheDir', disk |-> disk'])
       /\ (cleared(last) /\ last'.op \in {"getCachedImages", "getCachedImages_part000",
                                          "getCachedImages_part001"})
          => last'.ret = null
       /\ (cleared(last) /\ last'.op = "getMissingDates")
          => last'.ret = Some(last'.arg)]_vars

\* clearCache has removed an index with entries and a blob
C20_Witness ==
    /\ cleared(last)
    /\ ~last.pre.null
    /\ Len(last.pre.val.images) > 0
    /\ emptyCache(Storage)
    /\ ~cacheDir

---------------------------------------------------------------------------
(* SpecAsync: two calls that overlap.  A call runs up to its next await    *)
(* in one step: loadMetadata (fs.readFile), ensureCacheDir (fs.mkdir) and  *)
(* fs.writeFile, which opens the file with flag 'w', emptying it, and      *)
(* writes the content afterwards.  The steps of the two calls interleave   *)
(* in every order.  A call in flight has op and arg, its position pc, the  *)
(* storage pre it began on, and what it holds in memory: the document it   *)
(* loaded, the dates added of the entries it appended to it, the text      *)
(* local it is about to write, and early, which tells that it loaded       *)
(* before the other call opened a file.                                    *)

InFlight(op, arg, pc) ==
    [op |-> op, arg |-> arg, pc |-> pc, pre |-> Storage,
     loaded |-> null, added |-> {}, local |-> NoFile, early |-> FALSE, ret |-> null]

other(p) == CHOOSE q \in Procs : q # p

\* the call has not yet opened the file it writes
notOpened(call) == call.pc \in {"loadMetadata", "ensureCacheDir", "open"}

\* the file the call writes
targetFile(call) ==
    IF call.op = "cacheImage" THEN getCacheKey(call.arg[1]) ELSE metadataFile

documentToWrite_fresh(st, call) ==
    addImages(st, call.arg, Clock(2)).st.disk[metadataFile]

\* JSON.stringify(metadata) of the document the call holds in memory
documentToWrite(st, call) == call.local

\* what the call hands to fs.writeFile
contentOf(st, call) ==
    IF call.op = "cacheImage" THEN call.arg[2] ELSE documentToWrite(st, call)

\* two calls begin
Begin(call1, call2) ==
    /\ Quiet
    /\ calls' = [p \in Procs |-> IF p = 1 THEN call1 ELSE call2]
    /\ last' = NoCall
    /\ UNCHANGED <<cacheDir, disk>>

\* addImages up to the return of loadMetadata, and on to the call of
\* saveMetadata: the call is over when there is nothing to add
LoadMetadataStep(p) ==
    LET call == calls[p]
        r == addImages(Storage, call.arg, Clock(2))
        seen == [call EXCEPT !.loaded = loadMetadata(Storage),
                             !.early = notOpened(calls[other(p)])]
    IN /\ call.op = "addImages" /\ call.pc = "loadMetadata"
       /\ calls' = [calls EXCEPT ![p] =
                      IF threw(r.ret) THEN [seen EXCEPT !.pc = "done", !.ret = r.ret]
                      ELSE IF ~r.saved THEN [seen EXCEPT !.pc = "done"]
                      ELSE [seen EXCEPT !.pc = "ensureCacheDir",
                                        !.added = datesOf(imagesOf(loadMetadata(r.st)))
                                                  \ datesOf(imagesOf(seen.loaded)),
                                        !.local = r.st.disk[metadataFile]]]
       /\ UNCHANGED <<cacheDir, disk, last>>

\* ensureCacheDir of cacheImage and of saveMetadata
EnsureCacheDirStep(p) ==
    /\ calls[p].pc = "ensureCacheDir"
    /\ Store(ensureCacheDir(Storage))
    /\ calls' = [calls EXCEPT ![p].pc = "open"]
    /\ UNCHANGED last

\* fs.writeFile opens the file and empties it; without the directory it
\* rejects, which cacheImage throws on and saveMetadata drops
WriteFileOpenStep(p) ==
    LET call == calls[p] IN
    /\ call.pc = "open"
    /\ Store(writeFile(Storage, targetFile(call), Buffer(0)))
    /\ calls' = [calls EXCEPT ![p] =
                   IF cacheDir
                   THEN [call EXCEPT !.pc = "write", !.local = contentOf(Storage, call)]
                   ELSE [call EXCEPT !.pc = "done",
                                     !.ret = IF call.op = "cacheImage"
                                             THEN Thrown("writeFile") ELSE null]]
    /\ UNCHANGED last

\* fs.writeFile writes the content and resolves; the call returns
WriteFileStep(p) ==
    LET call == calls[p] IN
    /\ call.pc = "write"
    /\ Store(writeFile(Storage, targetFile(call), call.local))
    /\ calls' = [calls EXCEPT ![p] =
                   [call EXCEPT !.pc = "done",
                                !.ret = IF call.op = "cacheImage"
                                        THEN Some(DataUrl(call.arg[2])) ELSE null]]
    /\ UNCHANGED last

bothDone == \A p \in Procs : calls[p].pc = "done"

\* both calls have returned
Settle ==
    /\ bothDone
    /\ calls' = [p \in Procs |-> Idle]
    /\ UNCHANGED <<cacheDir, disk, last>>

\* the calls that may overlap
AddImagesCalls ==
    {InFlight("addImages", E, "loadMetadata") :
        E \in SeqsUpTo(HandlerEntries(Dates, {Clock(1)}), 1)}

CacheImageCalls ==
    {InFlight("cacheImage", <<d, b>>, "ensureCacheDir") : d \in Dates, b \in Buffers}

NextAsync ==
    \/ \E d \in Dates, b \in Buffers : Quiet /\ CacheImage(d, b)
    \/ \E E \in SeqsUpTo(HandlerEntries(Dates, {Clock(1)}), 1) :
          Quiet /\ AddImages(E, Clock(1))
    \/ \E c1, c2 \in AddImagesCalls : Begin(c1, c2)
    \/ \E c1, c2 \in CacheImageCalls : Begin(c1, c2)
    \/ \E p \in Procs : LoadMetadataStep(p)
    \/ \E p \in Procs : EnsureCacheDirStep(p)
    \/ \E p \in Procs : WriteFileOpenStep(p)
    \/ \E p \in Procs : WriteFileStep(p)
    \/ Settle

SpecAsync == Init /\ [][NextAsync]_vars

\* the dates the addImages call appended to the document it loaded
appendedDates(call) == call.added

\* both calls are addImages calls that saved, and each loaded the document
\* before the other opened metadata.json
bothLoadedFirst ==
    /\ bothDone
    /\ \A p \in Procs : /\ calls[p].op = "addImages"
                        /\ calls[p].local # NoFile
                        /\ calls[p].early
    /\ appendedDates(calls[1]) \cap appendedDates(calls[2]) = {}

\* (C21) two addImages calls race: when both load the index document before
\* either saves, the document on disk after both have returned is the one
\* of the call that wrote last, and the entries the other call appended are
\* missing from it
C21_LostUpdate ==
    bothLoadedFirst
    => \E p \in Procs :
          /\ disk[metadataFile] = calls[p].local
          /\ appendedDates(calls[other(p)]) \cap datesOf(indexImages) = {}

\* both calls appended an entry and have returned, and the index has one
C21_Witness ==
    /\ bothLoadedFirst
    /\ \A p \in Procs : appendedDates(calls[p]) # {}
    /\ Len(indexImages) = 1

\* both calls are cacheImage calls, for two dates, and have returned
bothCached ==
    /\ bothDone
    /\ \A p \in Procs : calls[p].op = "cacheImage"
    /\ calls[1].arg[1] # calls[2].arg[1]

\* (C22) blob writes for distinct dates do not interfere: however the steps
\* of cacheImage(d1, b1) and cacheImage(d2, b2) interleave, after both have
\* returned the blob of d1 is b1 and the blob of d2 is b2, each call has
\* returned the reference to its payload, and no other blob and not the
\* index has changed
C22_DistinctDatesIndependent ==
    bothCached
    => /\ \A p \in Procs :
             /\ disk[getCacheKey(calls[p].arg[1])] = calls[p].arg[2]
             /\ calls[p].ret = Some(DataUrl(calls[p].arg[2]))
       /\ \A f \in DOMAIN disk :
             (\A p \in Procs : f # getCacheKey(calls[p].arg[1]))
             => disk[f] = calls[1].pre.disk[f]

\* two payloads that differ were written over two blobs, beside an index
C22_Witness ==
    /\ bothCached
    /\ calls[1].arg[2] # calls[2].arg[2]
    /\ \A p \in Procs : exists(calls[p].pre, getCacheKey(calls[p].arg[1]))
    /\ exists(Storage, metadataFile)

---------------------------------------------------------------------------
\* the positions of the candidates whose date has no index entry
keptPositions(candidates, known) ==
    {i \in 1 .. Len(candidates) : candidates[i] \notin known}

\* result lists the elements of candidates at the positions kept, in the
\* order of the positions
isSubsequenceAt(result, candidates, kept) ==
    /\ Len(result) = Cardinality(kept)
    /\ \A i \in kept :
          result[Cardinality({j \in kept : j <= i})] = candidates[i]

\* (C23) getMissingDates(C) preserves the order of its input: its result is
\* C without exactly the candidates whose date has an index entry, the rest
\* in the order they have in C; the index and the blobs are left unchanged
C23_MissingInOrder ==
    [][last'.op = "getMissingDates"
          => /\ ~last'.ret.null /\ ~threw(last'.ret)
             /\ isSubsequenceAt(last'.ret.val, last'.arg,
                                keptPositions(last'.arg, datesOf(indexImages)))
             /\ UNCHANGED <<cacheDir, disk>>]_vars

\* of two candidates the first has an index entry and the second, an
\* earlier day, none: the result is the second alone
C23_Witness ==
    /\ last.op = "getMissingDates"
    /\ Len(last.arg) = 2
    /\ last.arg[1] > last.arg[2]
    /\ last.arg[1] \in datesOf(indexImages)
    /\ last.ret = Some(<<last.arg[2]>>)

---------------------------------------------------------------------------
\* no entry of the list comes before an entry of an earlier date
sortedByDate(images) ==
    \A i, j \in DOMAIN images :
        i < j => NewDate(images[i].date) <= NewDate(images[j].date)

isRangeResult(call) ==
    /\ call.op \in {"getCachedImages", "getCachedImages_part000",
                    "getCachedImages_part001"}
    /\ ~call.ret.null /\ ~threw(call.ret)

\* (C24) every result of getCachedImages that is not null is sorted
\* ascending by date and has entries only for dates whose blob exists: an
\* index entry whose blob is missing is dropped from the result
C24_SortedAndBacked ==
    [][isRangeResult(last')
          => /\ sortedByDate(last'.ret.val)
             /\ \A i \in DOMAIN last'.ret.val :
                   exists([dir |-> cacheDir', disk |-> disk'],
                          getCacheKey(last'.ret.val[i].date))]_vars

\* the same for the variants that resolve each entry against its blob
ResolvingVariantsSortedAndBacked ==
    [][(isRangeResult(last') /\ last'.op # "getCachedImages_part001")
          => /\ sortedByDate(last'.ret.val)
             /\ \A i \in DOMAIN last'.ret.val :
                   exists([dir |-> cacheDir', disk |-> disk'],
                          getCacheKey(last'.ret.val[i].date))]_vars

---------------------------------------------------------------------------
\* cacheImage returned a reference
cachedOk(call) == call.op = "cacheImage" /\ ~threw(call.ret)

\* (C25) cacheImage(d, b) stores exactly b under the key of d, whatever blob
\* was there, and returns the reference to b; getCachedImagePath(d) called
\* immediately after a successful cacheImage(d, b) with b of at least 10000
\* bytes returns the same reference
C25_RoundTrip ==
    [][/\ cachedOk(last')
          => /\ disk'[getCacheKey(last'.arg[1])] = last'.arg[2]
             /\ last'.ret = Some(DataUrl(last'.arg[2]))
       /\ (/\ cachedOk(last)
           /\ last.arg[2].length >= MinImageBytes
           /\ last'.op = "getCachedImagePath"
           /\ last'.arg = last.arg[1])
          => /\ last'.ret = last.ret
             /\ disk' = disk]_vars

\* cacheImage has stored a payload of 10000 bytes and returned its reference,
\* beside the short blob of another day
C25_Witness ==
    /\ cachedOk(last)
    /\ last.arg[2] = Buffer(MinImageBytes)
    /\ disk[getCacheKey(last.arg[1])] = Buffer(MinImageBytes)
    /\ \E d \in Dates : d # last.arg[1] /\ smallBlob(Storage, d)

---------------------------------------------------------------------------
\* bounding boxes a caller may pass
BBoxes == {RequestBBox, DefaultBBox, ZeroBBox}

\* (C26) the result of getCachedImages does not depend on its boundingBox
\* argument: on the same storage and for the same startDate and endDate,
\* calls with different bounding boxes return the same result, in the
\* variant of lib/image-cache.ts and in that of part_001
C26_BBoxIndependent ==
    \A b1, b2 \in BBoxes, s, e \in Dates :
        /\ getCachedImages(Storage, b1, s, e).ret
              = getCachedImages(Storage, b2, s, e).ret
        /\ getCachedImages_part001(Storage, b1, s, e, Clock(1)).ret
              = getCachedImages_part001(Storage, b2, s, e, Clock(1)).ret

\* the variant of lib/image-cache.ts never reads its boundingBox argument
BBoxIgnoredByLib ==
    \A b1, b2 \in BBoxes, s, e \in Dates :
        getCachedImages(Storage, b1, s, e) = getCachedImages(Storage, b2, s, e)

---------------------------------------------------------------------------
\* (C27) rebuildMetadataFromFiles removes exactly the dangling entries and
\* is otherwise additive: when it has completed the dates of the index are
\* the dates of the blobs, so an old entry whose blob exists still has an
\* entry for its date, an old entry without a blob is gone, a blob without
\* an old entry has gained one; the bounding box of the document is the
\* default box, and no blob has changed
C27_RebuildExact ==
    [][last'.op = "rebuildMetadataFromFiles"
          => LET after == [dir |-> cacheDir', disk |-> disk']
                 old == datesOf(imagesOf(last'.pre))
                 new == datesOf(indexImagesNext)
             IN /\ ~loadMetadata(after).null
                /\ new = blobDates(after)
                /\ \A d \in old : d \in new <=> exists(after, getCacheKey(d))
                /\ \A d \in blobDates(after) \ old : d \in new
                /\ Cardinality(new) = Len(indexImagesNext)
                /\ loadMetadata(after).val.bbox = DefaultBBox
                /\ \A f \in DOMAIN disk : endsWithPng(f) => disk'[f] = disk[f]]_vars

\* the rebuild dropped the entry of a day without a blob and gave an entry
\* to a blob that had none
C27_Witness ==
    /\ last.op = "rebuildMetadataFromFiles"
    /\ \E d \in datesOf(imagesOf(last.pre)) : ~exists(Storage, getCacheKey(d))
    /\ \E d \in blobDates(Storage) : d \notin datesOf(imagesOf(last.pre))
    /\ datesOf(indexImages) = blobDates(Storage)

---------------------------------------------------------------------------
\* (C28) the index document is created by the first write: when there is no
\* index, addImages(E) with at least one entry creates a document with the
\* bounding box [0,0,0,0] whose entries are exactly those of E, and
\* addImages of no entry creates none; the reads getMissingDates and
\* getCachedImagePath never create or change the document
C28_LazyIndex ==
    [][/\ (last'.op = "addImages" /\ disk[metadataFile] = NoFile)
          => IF Len(last'.arg) >= 1
             THEN /\ ~loadMetadata([dir |-> cacheDir', disk |-> disk']).null
                  /\ loadMetadata([dir |-> cacheDir', disk |-> disk']).val.bbox = ZeroBBox
                  /\ indexImagesNext = last'.arg
             ELSE disk'[metadataFile] = NoFile
       /\ last'.op \in {"getMissingDates", "getCachedImagePath"}
          => disk'[metadataFile] = disk[metadataFile]]_vars

\* addImages of two entries has created the document, beside a blob
C28_Witness ==
    /\ last.op = "addImages"
    /\ last.pre.null
    /\ Len(last.arg) = 2
    /\ indexImages = last.arg
    /\ loadMetadata(Storage).val.bbox = ZeroBBox
    /\ blobDates(Storage) # {}

---------------------------------------------------------------------------
\* the dates whose index entry the step removes
lostDates == datesOf(indexImages) \ datesOf(indexImagesNext)

\* the call ran rebuildMetadataFromFiles, by itself or inside a range query
isRebuild(call) ==
    \/ call.op = "rebuildMetadataFromFiles"
    \/ call.op = "getCachedImages_part000" /\ call.rebuilt > 0

---------------------------------------------------------------------------
(* SpecRecover: the cache of lib/image-cache.ts used as the handler uses   *)
(* it, an entry being recorded only for a blob that is on disk, with       *)
(* payloads of any length and no clearCache.  A day that has an entry and  *)
(* no blob is then a day whose blob a read has purged.                     *)

NextRecover ==
    \/ \E d \in Dates, b \in Buffers : CacheImage(d, b)
    \/ \E d \in Dates :
          /\ exists(Storage, getCacheKey(d))
          /\ AddImages(<<CachedImage(d, StaticUrl(d), Clock(1))>>, Clock(1))
    \/ \E s, e \in Dates : GetCachedImages(RequestBBox, s, e)
    \/ \E d \in Dates : GetCachedImagePath(d)
    \/ \E C \in SeqsUpTo(Dates, MaxLen) : GetMissingDates(C)

SpecRecover == Init /\ [][NextRecover]_vars

\* the day has an index entry and its blob is gone
purged(st, date) ==
    /\ date \in datesOf(imagesOf(loadMetadata(st)))
    /\ ~exists(st, getCacheKey(date))

\* (C30) a date whose corrupt blob was purged at read time can be recovered:
\* after getCachedImages has deleted the too-small blob of d, getMissingDates(C)
\* with d in C reports d as missing
C30_PurgedDateMissing ==
    [][last'.op = "getMissingDates"
          => \A d \in toSet(last'.arg) :
                purged(Storage, d) => d \in toSet(last'.ret.val)]_vars

---------------------------------------------------------------------------
(* SpecHandler: whole requests to the handler over more days than one      *)
(* request fetches, with the service failing for some days and the write   *)
(* of a blob rejected for some.                                            *)

FetchDates == 1 .. NumFetchDates

\* the days 1 .. n in ascending order
RECURSIVE upTo(_)
upTo(n) == IF n = 0 THEN <<>> ELSE Append(upTo(n - 1), n)

InitHandler ==
    /\ cacheDir = FALSE
    /\ disk = EmptyDisk(FetchDates)
    /\ last = NoCall
    /\ calls = [p \in Procs |-> Idle]

\* answers the handler does not store: no image, an image of exactly 10000
\* bytes, and a fallback image between the two thresholds
NoAnswer == Answer(FALSE, GoodPayload, FALSE, FALSE, GoodPayload)
ExactAnswer == Answer(TRUE, Payload(HandlerMinBytes, TRUE), FALSE, FALSE, GoodPayload)
FallbackAnswer ==
    Answer(FALSE, GoodPayload, TRUE, TRUE, Payload(FallbackMinBytes, TRUE))

\* the service answers the days of bad with answer and every other day with
\* a good image
Service(bad, answer) == [d \in FetchDates |-> IF d \in bad THEN answer ELSE GoodAnswer]

\* no day fails, the first day, all days but the last, or the third day
BadDays == {{}, {1}, 1 .. NumFetchDates - 1, {3}}

HandlerUpstreams ==
    {Service(bad, answer) :
        bad \in BadDays, answer \in {NoAnswer, ExactAnswer, FallbackAnswer}}

\* the candidate lists of the requests: every day, or every day but the first
HandlerSearches ==
    {Some(upTo(NumFetchDates)), Some(SubSeq(upTo(NumFetchDates), 2, NumFetchDates))}

NextHandler ==
    \/ \E failing \in {{}, {2}}, fetchMore \in BOOLEAN,
          search \in HandlerSearches, upstream \in HandlerUpstreams :
          PostUnder(failing, 1, NumFetchDates, fetchMore, search, upstream, Clock(2))
    \/ PostClearCache

SpecHandler == InitHandler /\ [][NextHandler]_vars

\* the dates of the pairs <<date, length>> of a set
firstOf(pairs) == {pair[1] : pair \in pairs}

\* (C31) in the images handler an index entry is recorded only after its
\* blob write succeeded: the entries a request hands to addImages are those
\* of the dates whose cacheImage call completed in that request, each with a
\* payload longer than 10000 bytes that is on disk when the request ends; a
\* date whose cacheImage threw, or whose payload was too small, has no entry
\* among them
C31_EntryAfterBlob ==
    [][last'.op = "POST" =>
          LET did == last'.did IN
          /\ datesOf(did.newImages) = firstOf(did.stored)
          /\ \A pair \in did.stored :
                /\ pair[2] > HandlerMinBytes
                /\ disk'[getCacheKey(pair[1])].length = pair[2]
          /\ did.added <=> did.newImages # <<>>
          /\ did.added => datesOf(did.newImages) \subseteq datesOf(indexImagesNext)
          /\ did.refused \cap datesOf(did.newImages) = {}
          /\ firstOf(did.stored) \cup did.refused \subseteq did.accepted
          /\ did.accepted \subseteq toSet(did.attempted)]_vars

\* a request asked for three dates or more: one was stored and entered, the
\* write of another was rejected, the image of a third was too small
C31_Witness ==
    /\ last.op = "POST"
    /\ \E d, e, f \in FetchDates :
          /\ d \in datesOf(last.did.newImages) /\ d \in datesOf(indexImages)
          /\ e \in last.did.refused /\ ~exists(Storage, getCacheKey(e))
          /\ f \in last.did.accepted \ (last.did.refused \cup firstOf(last.did.stored))
          /\ ~exists(Storage, getCacheKey(f))

---------------------------------------------------------------------------
\* the request the step makes: its candidate list, its fetchMore flag, its
\* response, and the candidates without an index entry when it starts
candidatesOf(call) == call.arg[4].val
fetchMoreOf(call) == call.arg[3]
responseOf(call) == call.ret.val
missingBefore(call) ==
    SelectSeq(candidatesOf(call), LAMBDA d : d \notin datesOf(indexImages))

\* the request finds five cached images or more and was not asked to fetch more
servedFromCache(call) ==
    LET existing == getCachedImages(Storage, RequestBBox, call.arg[1], call.arg[2]).ret
    IN ~existing.null /\ Len(existing.val) >= MinCachedToServe /\ ~fetchMoreOf(call)

\* what one request asks the service for: at most 5 dates, none when it is
\* served from the cache (and then nothing is handed to addImages), else the
\* first min(5, |missing|) of the missing dates in order
attemptsWithinBudget(call) ==
    /\ Len(call.did.attempted) <= MaxFetchCount
    /\ servedFromCache(call) =>
          /\ call.did.attempted = <<>>
          /\ ~call.did.added
          /\ responseOf(call).newImageCount = 0
    /\ ~servedFromCache(call) =>
          LET missing == missingBefore(call) IN
          \/ Len(missing) <= MaxFetchCount /\ call.did.attempted = missing
          \/ /\ Len(missing) > MaxFetchCount
             /\ call.did.attempted = SubSeq(missing, 1, MaxFetchCount)

remainingAsReported(call) ==
    responseOf(call).remainingToFetch
       = Len(missingBefore(call)) - Len(call.did.attempted)

answered(call) == call.op = "POST" /\ responseOf(call).status = 200

\* (C33) as stated: every request that is answered asks the service for at
\* most 5 dates, the first min(5, |missing|) of getMissingDates(candidates)
\* in order, and reports as remainingToFetch the number of missing dates
\* minus the number it asked for; with 5 cached images or more in the range
\* and fetchMore false it asks for none and calls addImages with none
C33_AsStated ==
    [][answered(last') =>
          attemptsWithinBudget(last') /\ remainingAsReported(last')]_vars

\* (C33) a request that is not served from the cache asks the service for
\* the first min(5, |missing|) of the missing dates in order, never for more
\* than 5, and reports as remainingToFetch the number of missing dates minus
\* the number it asked for; a request served from the cache (5 cached images
\* or more in the range and fetchMore false) asks for none, hands nothing to
\* addImages and reports remainingToFetch 0
C33_FetchBudget ==
    [][answered(last') =>
          /\ attemptsWithinBudget(last')
          /\ ~servedFromCache(last') => remainingAsReported(last')
          /\ servedFromCache(last') => responseOf(last').remainingToFetch = 0]_vars

\* a request left one date for later: six were missing, five were asked for
C33_Witness ==
    /\ answered(last)
    /\ Len(last.did.attempted) = MaxFetchCount
    /\ Len(last.did.missing) = MaxFetchCount + 1
    /\ responseOf(last).remainingToFetch = 1

---------------------------------------------------------------------------
\* every blob the request stored passes the check of getCachedImagePath, and
\* is still there after the read of the range that ends the request
storedSurviveRead(call, st) ==
    \A pair \in call.did.stored :
       /\ pair[2] >= MinImageBytes
       /\ validBlob(st, pair[1])
       /\ ~getCachedImagePath(st, pair[1]).ret.null
       /\ getCachedImagePath(st, pair[1]).st.disk = st.disk

\* every image getImageForDate accepted was stored, but for a rejected write
acceptedAreStored(call) ==
    call.did.accepted \subseteq firstOf(call.did.stored) \cup call.did.refused

\* (C36) the size checks at write time and at read time agree: what the
\* handler caches is longer than 10000 bytes and passes the read-time check
\* of getCachedImagePath, so that no read deletes it; and every payload the
\* fetch step accepts as valid is cached by the handler
C36_ChecksAgree ==
    [][last'.op = "POST" =>
          /\ storedSurviveRead(last', [dir |-> cacheDir', disk |-> disk'])
          /\ acceptedAreStored(last')]_vars

\* the first half alone: what the handler caches survives the reads
HandlerBlobsSurviveReads ==
    [][last'.op = "POST" =>
          storedSurviveRead(last', [dir |-> cacheDir', disk |-> disk'])]_vars

---------------------------------------------------------------------------
(* SpecProgress: the same request repeated, for a fixed candidate list,    *)
(* while the service never has a storable image for the days of Broken;    *)
(* it starts from a cache that earlier requests filled for some days.      *)

\* the days the service keeps failing for: as many as one request tries,
\* all before the last candidate
Broken == 1 .. MaxFetchCount

\* the entries of the handler for the days of a list
RECURSIVE entriesFor(_, _)
entriesFor(dates, now) ==
    IF dates = <<>> THEN <<>>
    ELSE <<CachedImage(Head(dates), StaticUrl(Head(dates)), now)>>
         \o entriesFor(Tail(dates), now)

\* the cache after earlier requests stored and entered the days of S
Seeded(S) ==
    LET stored == [dir |-> S # {},
                   disk |-> [f \in FileNames(FetchDates) |->
                               IF \E d \in S : f = getCacheKey(d)
                               THEN GoodPayload ELSE NoFile]]
        dates == SelectSeq(upTo(NumFetchDates), LAMBDA d : d \in S)
    IN IF S = {} THEN stored
       ELSE addImages(stored, entriesFor(dates, Clock(1)), Clock(1)).st

InitProgress ==
    /\ \E S \in SUBSET FetchDates :
          cacheDir = Seeded(S).dir /\ disk = Seeded(S).disk
    /\ last = NoCall
    /\ calls = [p \in Procs |-> Idle]

\* a request for every candidate day arrives: POST awaits request.json()
Arrive(fetchMore) ==
    /\ Quiet
    /\ calls' = [calls EXCEPT ![1] = [op |-> "POST", pc |-> "arrived",
                                      fetchMore |-> fetchMore]]
    /\ UNCHANGED <<cacheDir, disk, last>>

arrived == calls[1].op = "POST" /\ calls[1].pc = "arrived"

\* the request that arrived is served
Serve ==
    /\ arrived
    /\ \E answer \in {NoAnswer, ExactAnswer} :
          LET search == Some(upTo(NumFetchDates))
              r == POST(Storage, 1, NumFetchDates, RequestBBox, calls[1].fetchMore,
                        search, Service(Broken, answer), Clock(2))
          IN /\ Store(r.st)
             /\ last' = Served(1, NumFetchDates, calls[1].fetchMore, search, r)
    /\ calls' = [calls EXCEPT ![1] = Idle]

NextProgress ==
    \/ \E fetchMore \in BOOLEAN : Arrive(fetchMore)
    \/ Serve

\* a request that arrived is answered: POST returns a response on every
\* path, so Serve is enabled exactly when a request has arrived, and weak
\* fairness of Serve is this formula
ServeFairly == []<>(~arrived) \/ []<><<Serve>>_vars

\* requests with fetchMore set keep coming, whatever other requests come
\* between them, and each request is answered
SpecProgress ==
    InitProgress /\ [][NextProgress]_vars /\ SF_vars(Arrive(TRUE)) /\ ServeFairly

cachedAndIndexed(d) == d \in datesOf(indexImages) /\ validBlob(Storage, d)

\* (C32) repeated fetching makes progress: with requests for a fixed
\* candidate list repeated with fetchMore set, every candidate date for which
\* the service has a valid image is eventually cached and indexed, even when
\* the service keeps failing for candidate dates that come before it in the
\* missing list
C32_Progress ==
    <>(\A d \in FetchDates \ Broken : cachedAndIndexed(d))

\* with fewer failing dates before it than one request tries, the date is
\* reached
ProgressWithinBudget ==
    (Cardinality(Broken \ datesOf(indexImages)) < MaxFetchCount)
       ~> (\A d \in FetchDates \ Broken : cachedAndIndexed(d))

---------------------------------------------------------------------------
\* the dates of a list of entries, in the order of the list
dateList(images) == [i \in 1 .. Len(images) |-> images[i].date]

storageAfter == [dir |-> cacheDir', disk |-> disk']

\* a second rebuild of st, whatever the order in which readdir lists the
\* files, leaves the entry dates and their order as they are
rebuildChangesNothing(st) ==
    \A o \in Orders(NumRepairDates) :
       LET again == rebuildMetadataFromFiles(st, o, mtimeRepair, Clock(3)) IN
       /\ ~loadMetadata(again).null
       /\ dateList(imagesOf(loadMetadata(again))) = dateList(imagesOf(loadMetadata(st)))
       /\ again.disk = [st.disk EXCEPT ![metadataFile] = again.disk[metadataFile]]

\* a range query on st runs no rebuild
queryRebuildsNothing(st) ==
    \A o \in Orders(NumRepairDates), s \in {1, NumRepairDates} :
       getCachedImages_part000(st, RequestBBox, s, NumRepairDates, o,
                               mtimeRepair, Clock(3)).rebuilt = 0

\* (C34) reconciliation is stable: with no blob written or deleted in
\* between, a second run of rebuildMetadataFromFiles leaves the same entry
\* dates in the same order as the first, and a getCachedImages call made
\* right after a rebuild does not run another rebuild
C34_RebuildStable ==
    [][/\ last'.op = "rebuildMetadataFromFiles" =>
             /\ rebuildChangesNothing(storageAfter)
             /\ queryRebuildsNothing(storageAfter)
       /\ last.op = "rebuildMetadataFromFiles" /\ last'.op = "getCachedImages_part000"
             => last'.rebuilt = 0 /\ dateList(indexImagesNext) = dateList(indexImages)
       /\ last.op = "rebuildMetadataFromFiles" /\ last'.op = "rebuildMetadataFromFiles"
             => dateList(indexImagesNext) = dateList(indexImages)]_vars

\* a range query follows a rebuild that had replaced an index more than 10
\* entries short of the blobs
C34_Witness ==
    /\ last.op = "getCachedImages_part000"
    /\ last.rebuilt = 0
    /\ ~last.pre.null
    /\ Len(indexImages) = NumRepairDates
    /\ \A i \in DOMAIN indexImages :
          indexImages[i].timestamp = mtimeRepair[getCacheKey(indexImages[i].date)]
    /\ blobDates(Storage) = RepairDates
    /\ ~last.ret.null

---------------------------------------------------------------------------
(* SpecClear: one getCachedImages call of part_000 and one clearCache call *)
(* that overlap.  A step of the query runs it from one await to the next:  *)
(* loadMetadata, the readdir of the consistency check, the readdir, the    *)
(* stats and the save of a rebuild, the reload, and the loop over the      *)
(* entries.  fs.rm is one step.                                            *)

\* getCachedImages as it starts: metadata is what it has loaded, files and
\* images are the locals of the rebuild, after is where the rebuild returns to
Query(startDate, endDate) ==
    [op |-> "getCachedImages_part000", arg |-> <<RequestBBox, startDate, endDate>>,
     pc |-> "load", metadata |-> null, files |-> <<>>, images |-> <<>>,
     after |-> "none", ret |-> null]

Clear == [op |-> "clearCache", arg |-> <<>>, pc |-> "rm", ret |-> null]

isQuery(p) == calls[p].op = "getCachedImages_part000"

Goto(p, call) == calls' = [calls EXCEPT ![p] = call]

\* let metadata = await this.loadMetadata()
QueryLoadStep(p) ==
    LET call == calls[p]
        metadata == loadMetadata(Storage) IN
    /\ isQuery(p) /\ call.pc = "load"
    /\ Goto(p, [call EXCEPT !.metadata = metadata,
                            !.pc = IF metadata.null THEN "scan" ELSE "readdir",
                            !.after = IF metadata.null THEN "reload1" ELSE "none"])
    /\ UNCHANGED <<cacheDir, disk, last>>

\* the consistency check: a readdir that fails is caught and skips it
QueryReaddirStep(p) ==
    LET call == calls[p] IN
    /\ isQuery(p) /\ call.pc = "readdir"
    /\ \E order \in Orders(NumRepairDates) :
          LET pngFiles == SelectSeq(readdir(Storage, order), endsWithPng)
              again == /\ ~readdirFails(Storage)
                       /\ hasImages(call.metadata.val)
                       /\ inconsistent(pngFiles, call.metadata.val.images)
          IN Goto(p, [call EXCEPT !.pc = IF again THEN "scan" ELSE "filter",
                                  !.after = IF again THEN "reload2" ELSE "none"])
    /\ UNCHANGED <<cacheDir, disk, last>>

\* rebuildMetadataFromFiles: ensureCacheDir and readdir
RebuildScanStep(p) ==
    LET call == calls[p]
        st1 == ensureCacheDir(Storage) IN
    /\ isQuery(p) /\ call.pc = "scan"
    /\ \E order \in Orders(NumRepairDates) :
          Goto(p, [call EXCEPT !.files = SelectSeq(readdir(st1, order), endsWithPng),
                               !.pc = "stat"])
    /\ Store(st1)
    /\ UNCHANGED last

\* rebuildMetadataFromFiles: fs.stat of every file listed; the stat of a
\* file that is gone throws, and the catch of the rebuild ends it
RebuildStatStep(p) ==
    LET call == calls[p]
        gone == \E i \in DOMAIN call.files : ~exists(Storage, call.files[i])
        images == [i \in 1 .. Len(call.files) |->
                     CachedImage(replacePng(call.files[i]),
                                 StaticUrl(replacePng(call.files[i])),
                                 mtimeRepair[call.files[i]])]
    IN /\ isQuery(p) /\ call.pc = "stat"
       /\ Goto(p, [call EXCEPT !.images = IF gone THEN <<>> ELSE sortByDate(images),
                               !.pc = IF gone THEN call.after ELSE "save"])
       /\ UNCHANGED <<cacheDir, disk, last>>

\* rebuildMetadataFromFiles: saveMetadata, whose error is logged and dropped
RebuildSaveStep(p) ==
    LET call == calls[p] IN
    /\ isQuery(p) /\ call.pc = "save"
    /\ Store(saveMetadata(Storage, CacheMetadata(DefaultBBox, call.images, Clock(2))))
    /\ Goto(p, [call EXCEPT !.pc = call.after])
    /\ UNCHANGED last

\* metadata = await this.loadMetadata() after a rebuild: tested for null
\* after the first rebuild, not after the second
QueryReloadStep(p) ==
    LET call == calls[p]
        metadata == loadMetadata(Storage) IN
    /\ isQuery(p) /\ call.pc \in {"reload1", "reload2"}
    /\ Goto(p, [call EXCEPT !.metadata = metadata,
                            !.pc = IF call.pc = "reload2" THEN "filter"
                                   ELSE IF metadata.null THEN "done" ELSE "readdir",
                            !.after = "none"])
    /\ UNCHANGED <<cacheDir, disk, last>>

\* for (const img of metadata.images), the sort and the return
QueryFilterStep(p) ==
    LET call == calls[p]
        metadata == call.metadata IN
    /\ isQuery(p) /\ call.pc = "filter"
    /\ Goto(p, [call EXCEPT
                  !.pc = "done",
                  !.ret = IF metadata.null \/ ~hasImages(metadata.val) THEN TypeError
                          ELSE listOrNull(sortByDate(
                                  existingInRange(Storage, metadata.val.images,
                                                  call.arg[2], call.arg[3])))])
    /\ UNCHANGED <<cacheDir, disk, last>>

\* await fs.rm(this.cacheDir, {recursive: true, force: true})
ClearStep(p) ==
    /\ calls[p].op = "clearCache" /\ calls[p].pc = "rm"
    /\ Store(clearCache(Storage))
    /\ Goto(p, [calls[p] EXCEPT !.pc = "done"])
    /\ UNCHANGED last

\* the cache is filled as in SpecRepair while no call is in flight; then the
\* two calls start
NextClear ==
    \/ \E d \in RepairDates :
          /\ Quiet
          /\ isMax(d, RepairDates \ blobDates(Storage))
          /\ CacheImage(d, Buffer(MinImageBytes))
    \/ \E d \in RepairDates :
          /\ Quiet
          /\ isMin(d, RepairDates \ datesOf(indexImages))
          /\ AddImages(<<CachedImage(d, StaticUrl(d), Clock(1))>>, Clock(1))
    \/ Begin(Query(1, NumRepairDates), Clear)
    \/ \E p \in Procs :
          \/ QueryLoadStep(p)
          \/ QueryReaddirStep(p)
          \/ RebuildScanStep(p)
          \/ RebuildStatStep(p)
          \/ RebuildSaveStep(p)
          \/ QueryReloadStep(p)
          \/ QueryFilterStep(p)
          \/ ClearStep(p)
    \/ Settle

SpecClear == InitRepair /\ [][NextClear]_vars

\* (C35) getCachedImages is safe against a concurrent clearCache: however the
\* steps of one getCachedImages call, its consistency check and its rebuilds
\* included, interleave with one clearCache call, getCachedImages completes
\* with null or a list and never fails on a missing document
C35_SafeAgainstClear ==
    \A p \in Procs :
       isQuery(p) /\ calls[p].pc = "done" => ~threw(calls[p].ret)

\* when fs.rm does not come between the save of the second rebuild and the
\* reload, the call completes with null or a list
QueryCompletesUnlessCleared ==
    \A p \in Procs :
       isQuery(p) /\ calls[p].pc = "done" /\ threw(calls[p].ret)
          => calls[other(p)].pc = "done" /\ ~cacheDir

====
